---- MODULE Spec2Model ----
(***************************************************************************)
(* GDEM: nodata-aware altitude queries over one raster band (GDEM::DEM,    *)
(* the older ::DEM) and the raster utilities (Merge).                      *)
(*                                                                         *)
(* Coordinates, resolutions and samples are integers; a float or double    *)
(* computed by a division is kept as an exact fraction [n, d] with d > 0,  *)
(* so rounding, truncation and the bilinear weights are computed as the    *)
(* code computes them on exactly representable values.                     *)
(***************************************************************************)
EXTENDS Integers, Sequences, FiniteSets, TLC

\* ------------------------------------------------------------------ bounds
MaxRows == 3
MaxCols == 3
MaxInputs == 3
MaxFaultCell == 1

\* ------------------------------------------------------- program constants
INT16_MIN == -32768

\* --------------------------------------------------------------- fractions
Abs(a) == IF a < 0 THEN -a ELSE a

\* a / b on floating point values that are exact: the fraction a/b, b # 0
Frac(a, b) == IF b < 0 THEN [n |-> -a, d |-> -b] ELSE [n |-> a, d |-> b]

FromInt(i) == [n |-> i, d |-> 1]

FracEq(p, q) == p.n * q.d = q.n * p.d

FracLess(p, q) == p.n * q.d < q.n * p.d

FracMin(p, q) == IF FracLess(q, p) THEN q ELSE p

FracSub(p, q) == [n |-> p.n * q.d - q.n * p.d, d |-> p.d * q.d]

FracAdd(p, q) == [n |-> p.n * q.d + q.n * p.d, d |-> p.d * q.d]

FracMul(p, q) == [n |-> p.n * q.n, d |-> p.d * q.d]

\* static_cast to an integer type: the fractional part is discarded
Trunc(p) == IF p.n >= 0 THEN p.n \div p.d ELSE -((-p.n) \div p.d)

\* std::round: nearest integer, halfway cases away from zero
Round(p) ==
    IF p.n >= 0 THEN (2 * p.n + p.d) \div (2 * p.d)
    ELSE -((2 * (-p.n) + p.d) \div (2 * p.d))

\* static_cast<int>(a / b) on doubles holding the integers a and b, b # 0
TruncDiv(a, b) ==
    IF (a < 0) = (b < 0) THEN Abs(a) \div Abs(b) ELSE -(Abs(a) \div Abs(b))

Min2(a, b) == IF b < a THEN b ELSE a

Max2(a, b) == IF a < b THEN b ELSE a

\* ---------------------------------------------------------------- datasets
\* A GDAL dataset as the library sees it: size, the 6 geotransform
\* coefficients, the band's declared nodata value and the band's samples.
ramp(r, c) == 10 * r + c + 1

spike(r, c) == IF r = 1 /\ c = 1 THEN 100 ELSE 0

tens(r, c) == 10 * (1 + 2 * r + c)

deep(r, c) == -(45 + 2 * r + 4 * c)

Sample(pattern, r, c) ==
    CASE pattern = "spike" -> spike(r, c)
      [] pattern = "tens" -> tens(r, c)
      [] pattern = "deep" -> deep(r, c)
      [] OTHER -> ramp(r, c)

\* the raster files at hand: geotransform, declared nodata value, samples
Files ==
    { [transform |-> <<0, 2, 0, 10, 0, -2>>, NoDataValue |-> 0, pattern |-> "ramp"],
      [transform |-> <<0, 2, 0, 10, 0, -2>>, NoDataValue |-> 1, pattern |-> "spike"],
      [transform |-> <<-4, 4, 0, 6, 0, -2>>, NoDataValue |-> -9999, pattern |-> "spike"],
      [transform |-> <<-4, 4, 0, 6, 0, -2>>, NoDataValue |-> 1, pattern |-> "ramp"] }

Datasets ==
    { [YSize |-> rows, XSize |-> columns, transform |-> f.transform,
       NoDataValue |-> f.NoDataValue, pattern |-> f.pattern] :
        rows \in 1..MaxRows, columns \in 1..MaxCols, f \in Files }

\* GDALRasterBand::RasterIO(GF_Read, c, r, 1, 1, ...): one sample; the read
\* fails when the window is outside the raster or the storage reports an
\* error (io_error).
RasterIO(ds, c, r, io_error) ==
    IF c >= 0 /\ c < ds.XSize /\ r >= 0 /\ r < ds.YSize /\ ~io_error
    THEN [ok |-> TRUE, value |-> Sample(ds.pattern, r, c)]
    ELSE [ok |-> FALSE, value |-> 0]

\* ------------------------------------------------------------- GDEM::Type
\* the declared nodata value kept even when it is 0
Type_initialize_declared(ds, no_data_fallback) ==
    LET transform == ds.transform
        rows == ds.YSize
        columns == ds.XSize
    IN  [ nodata |-> ds.NoDataValue,
          rows |-> rows,
          columns |-> columns,
          x_resolution |-> transform[2],
          y_resolution |-> transform[6],
          y_min |-> transform[4] + columns * transform[5] + rows * transform[6],
          x_min |-> transform[1],
          y_max |-> transform[4],
          x_max |-> transform[1] + columns * transform[2] + rows * transform[3] ]

\* GDEM::Type::initialize with the template argument no_data_fallback, and
\* Type::Type(GDALDataset*) of the older class, whose fallback is INT16_MIN
Type_initialize(ds, no_data_fallback) ==
    LET transform == ds.transform
        rows == ds.YSize
        columns == ds.XSize
    IN  [ nodata |-> IF ds.NoDataValue = 0 THEN no_data_fallback ELSE ds.NoDataValue,
          rows |-> rows,
          columns |-> columns,
          x_resolution |-> transform[2],
          y_resolution |-> transform[6],
          y_min |-> transform[4] + columns * transform[5] + rows * transform[6],
          x_min |-> transform[1],
          y_max |-> transform[4],
          x_max |-> transform[1] + columns * transform[2] + rows * transform[3] ]

\* ----------------------------------------------------------- GDEM::Bounds
Coordinate(latitude, longitude) == [latitude |-> latitude, longitude |-> longitude]

Bounds(NW, NE, SW, SE) == [NW |-> NW, NE |-> NE, SW |-> SW, SE |-> SE]

\* the north edge counted as inside
within_closed_north(b, latitude, longitude) ==
    /\ latitude >= b.SW.latitude
    /\ latitude <= b.NE.latitude
    /\ longitude >= b.SW.longitude
    /\ longitude < b.NE.longitude

within(b, latitude, longitude) ==
    /\ latitude >= b.SW.latitude
    /\ latitude < b.NE.latitude
    /\ longitude >= b.SW.longitude
    /\ longitude < b.NE.longitude

\* -------------------------------------------------------------- GDEM::DEM
DEM_initialize(ds) ==
    LET type == Type_initialize(ds, INT16_MIN)
    IN  [ dataset |-> ds,
          type |-> type,
          bounds |-> Bounds(Coordinate(type.y_max, type.x_min),
                            Coordinate(type.y_max, type.x_max),
                            Coordinate(type.y_min, type.x_min),
                            Coordinate(type.y_min, type.x_max)) ]

index(d, latitude, longitude) ==
    IF within(d.bounds, latitude, longitude)
    THEN [ row |-> Frac(latitude - d.type.y_max, d.type.y_resolution),
           column |-> Frac(longitude - d.type.x_min, d.type.x_resolution) ]
    ELSE [ row |-> FromInt(d.type.nodata), column |-> FromInt(d.type.nodata) ]

\* The result of a query: the value returned, the pixels <<row, column>> read
\* in order, whether one of those reads failed, whether an error was raised.
Answer(value, reads, read_failed) ==
    [value |-> value, reads |-> reads, read_failed |-> read_failed, raised |-> FALSE]

\* the reads issued by `a || b || c || d`: up to and including the first failure
IssuedReads(ds, pixels, fail_at) ==
    LET failing == { k \in 1..Len(pixels) : ~RasterIO(ds, pixels[k][2], pixels[k][1], fail_at = k).ok }
    IN  IF failing = {} THEN pixels
        ELSE SubSeq(pixels, 1, CHOOSE k \in failing : \A j \in failing : k <= j)

Bilinear(del_latitude, del_longitude, m, n, o, p) ==
    LET one == FromInt(1)
    IN  FracAdd(
            FracAdd(
                FracAdd(
                    FracMul(FracMul(FracSub(one, del_latitude), FracSub(one, del_longitude)), FromInt(m)),
                    FracMul(FracMul(del_longitude, FracSub(one, del_latitude)), FromInt(n))),
                FracMul(FracMul(FracSub(one, del_longitude), del_latitude), FromInt(o))),
            FracMul(FracMul(del_latitude, del_longitude), FromInt(p)))

\* the status of the read ignored: the buffer is returned whatever happened
GDEM_DEM_altitude_unchecked(d, latitude, longitude, fail_at) ==
    LET rc == index(d, latitude, longitude)
        nodata == d.type.nodata
    IN  IF FracEq(rc.row, FromInt(nodata)) \/ FracEq(rc.column, FromInt(nodata))
        THEN Answer(nodata, <<>>, FALSE)
        ELSE LET r0 == Round(rc.row)
                 c0 == Round(rc.column)
                 r == IF r0 = d.type.rows THEN r0 - 1 ELSE r0
                 c == IF c0 = d.type.columns THEN c0 - 1 ELSE c0
                 io == RasterIO(d.dataset, c, r, fail_at = 1)
             IN  Answer(io.value, << <<r, c>> >>, ~io.ok)

GDEM_DEM_altitude(d, latitude, longitude, fail_at) ==
    LET rc == index(d, latitude, longitude)
        nodata == d.type.nodata
    IN  IF FracEq(rc.row, FromInt(nodata)) \/ FracEq(rc.column, FromInt(nodata))
        THEN Answer(nodata, <<>>, FALSE)
        ELSE LET r0 == Round(rc.row)
                 c0 == Round(rc.column)
                 r == IF r0 = d.type.rows THEN r0 - 1 ELSE r0
                 c == IF c0 = d.type.columns THEN c0 - 1 ELSE c0
                 io == RasterIO(d.dataset, c, r, fail_at = 1)
             IN  IF ~io.ok THEN Answer(nodata, << <<r, c>> >>, TRUE)
                 ELSE Answer(io.value, << <<r, c>> >>, FALSE)

GDEM_DEM_interpolated_altitude(d, latitude, longitude, fail_at) ==
    LET rc == index(d, latitude, longitude)
        nodata == d.type.nodata
    IN  IF FracEq(rc.row, FromInt(nodata)) \/ FracEq(rc.column, FromInt(nodata))
        THEN Answer(FromInt(nodata), <<>>, FALSE)
        ELSE LET r == Trunc(rc.row)
                 c == Trunc(rc.column)
                 del_latitude == FracSub(FracMin(rc.row, FromInt(d.type.rows - 1)), FromInt(r))
                 del_longitude == FracSub(FracMin(rc.column, FromInt(d.type.columns - 1)), FromInt(c))
                 next_r == IF r = d.type.rows - 1 THEN r ELSE r + 1
                 next_c == IF c = d.type.columns - 1 THEN c ELSE c + 1
                 pixels == << <<r, c>>, <<r, c + next_c>>, <<r + next_r, c>>, <<r + next_r, c + next_c>> >>
                 m == RasterIO(d.dataset, c, r, fail_at = 1)
                 n == RasterIO(d.dataset, c + next_c, r, fail_at = 2)
                 o == RasterIO(d.dataset, c, r + next_r, fail_at = 3)
                 p == RasterIO(d.dataset, c + next_c, r + next_r, fail_at = 4)
             IN  IF ~m.ok \/ ~n.ok \/ ~o.ok \/ ~p.ok
                 THEN Answer(FromInt(nodata), IssuedReads(d.dataset, pixels, fail_at), TRUE)
                 ELSE Answer(Bilinear(del_latitude, del_longitude, m.value, n.value, o.value, p.value),
                             pixels, FALSE)

\* ------------------------------------------------------------------ ::DEM
\* The older, non-template class: int16_t samples, double coordinates.
check_coordinates_bounds(d, latitude, longitude) ==
    /\ latitude >= d.type.y_min
    /\ latitude < d.type.y_max
    /\ longitude >= d.type.x_min
    /\ longitude < d.type.x_max

DEM_index(d, latitude, longitude) ==
    IF check_coordinates_bounds(d, latitude, longitude)
    THEN [ row |-> Frac(latitude - d.type.y_max, d.type.y_resolution),
           column |-> Frac(longitude - d.type.x_min, d.type.x_resolution) ]
    ELSE [ row |-> FromInt(d.type.nodata), column |-> FromInt(d.type.nodata) ]

DEM_altitude(d, latitude, longitude, fail_at) ==
    LET rc == DEM_index(d, latitude, longitude)
        nodata == d.type.nodata
    IN  IF FracEq(rc.row, FromInt(nodata)) \/ FracEq(rc.column, FromInt(nodata))
        THEN Answer(nodata, <<>>, FALSE)
        ELSE LET r == Round(rc.row)
                 c == Round(rc.column)
                 io == RasterIO(d.dataset, c, r, fail_at = 1)
             IN  IF ~io.ok THEN Answer(nodata, << <<r, c>> >>, TRUE)
                 ELSE Answer(io.value, << <<r, c>> >>, FALSE)

DEM_interpolated_altitude(d, latitude, longitude, fail_at) ==
    LET rc == DEM_index(d, latitude, longitude)
        nodata == d.type.nodata
    IN  IF FracEq(rc.row, FromInt(nodata)) \/ FracEq(rc.column, FromInt(nodata))
        THEN Answer(FromInt(nodata), <<>>, FALSE)
        ELSE LET r == Trunc(rc.row)
                 c == Trunc(rc.column)
                 del_latitude == FracSub(FracMin(rc.row, FromInt(d.type.rows - 1)), FromInt(r))
                 del_longitude == FracSub(FracMin(rc.column, FromInt(d.type.columns - 1)), FromInt(c))
                 pixels == << <<r, c>>, <<r, c + 1>>, <<r + 1, c>>, <<r + 1, c + 1>> >>
                 m == RasterIO(d.dataset, c, r, fail_at = 1)
                 n == RasterIO(d.dataset, c + 1, r, fail_at = 2)
                 o == RasterIO(d.dataset, c, r + 1, fail_at = 3)
                 p == RasterIO(d.dataset, c + 1, r + 1, fail_at = 4)
             IN  IF ~m.ok \/ ~n.ok \/ ~o.ok \/ ~p.ok
                 THEN Answer(FromInt(nodata), IssuedReads(d.dataset, pixels, fail_at), TRUE)
                 ELSE Answer(Bilinear(del_latitude, del_longitude, m.value, n.value, o.value, p.value),
                             pixels, FALSE)

\* ---------------------------------------------------------- Utility::Merge
\* the rasters handed to Merge: five tiles that overlap, leave gaps, differ in
\* resolution, and (the fourth) start three quarters of a cell off the grid
Tiles ==
    << [YSize |-> 2, XSize |-> 2, transform |-> <<0, 2, 0, 4, 0, -2>>, NoDataValue |-> -9999, pattern |-> "tens"],
       [YSize |-> 2, XSize |-> 2, transform |-> <<2, 2, 0, 2, 0, -2>>, NoDataValue |-> -1, pattern |-> "deep"],
       [YSize |-> 2, XSize |-> 2, transform |-> <<-2, 2, 0, 4, 0, -2>>, NoDataValue |-> -7, pattern |-> "tens"],
       [YSize |-> 1, XSize |-> 1, transform |-> <<3, 4, 0, 4, 0, -4>>, NoDataValue |-> -5, pattern |-> "ramp"],
       [YSize |-> 1, XSize |-> 1, transform |-> <<0, 4, 0, 4, 0, -4>>, NoDataValue |-> -3, pattern |-> "spike"] >>

\* the extremes are overwritten by each input instead of accumulated
MergeExtent_last(sources) ==
    LET dataset == sources[Len(sources)]
        geotransform == dataset.transform
    IN  [ min_x |-> geotransform[1],
          min_y |-> geotransform[4] + dataset.YSize * geotransform[6],
          max_x |-> geotransform[1] + dataset.XSize * geotransform[2],
          max_y |-> geotransform[4],
          cellsize_x |-> Abs(geotransform[2]),
          cellsize_y |-> Abs(geotransform[6]) ]

\* the loop of lines 244-256: the bounding box and the coarsest cell size,
\* accumulated in input order (the first input replaces the initial extremes)
RECURSIVE MergeExtent(_)
MergeExtent(sources) ==
    LET dataset == sources[Len(sources)]
        geotransform == dataset.transform
        own == [ min_x |-> geotransform[1],
                 min_y |-> geotransform[4] + dataset.YSize * geotransform[6],
                 max_x |-> geotransform[1] + dataset.XSize * geotransform[2],
                 max_y |-> geotransform[4],
                 cellsize_x |-> Abs(geotransform[2]),
                 cellsize_y |-> Abs(geotransform[6]) ]
    IN  IF Len(sources) = 1 THEN own
        ELSE LET acc == MergeExtent(SubSeq(sources, 1, Len(sources) - 1))
             IN  [ min_x |-> Min2(acc.min_x, own.min_x),
                   min_y |-> Min2(acc.min_y, own.min_y),
                   max_x |-> Max2(acc.max_x, own.max_x),
                   max_y |-> Max2(acc.max_y, own.max_y),
                   cellsize_x |-> Max2(acc.cellsize_x, own.cellsize_x),
                   cellsize_y |-> Max2(acc.cellsize_y, own.cellsize_y) ]

\* the dimensions rounded to nearest instead of truncated
MergeCreate_rounded(sources, nodata_value) ==
    LET e == MergeExtent(sources)
    IN  [ XSize |-> Round(Frac(e.max_x - e.min_x, e.cellsize_x)),
          YSize |-> Round(Frac(e.max_y - e.min_y, e.cellsize_y)),
          NoDataValue |-> nodata_value,
          transform |-> <<e.min_x, e.cellsize_x, 0, e.max_y, 0, -e.cellsize_y>> ]

\* driver->Create(path, columns, rows, 1, GDT_Int16) and the geotransform set on it
MergeCreate(sources, nodata_value) ==
    LET e == MergeExtent(sources)
    IN  [ XSize |-> TruncDiv(e.max_x - e.min_x, e.cellsize_x),
          YSize |-> TruncDiv(e.max_y - e.min_y, e.cellsize_y),
          NoDataValue |-> nodata_value,
          transform |-> <<e.min_x, e.cellsize_x, 0, e.max_y, 0, -e.cellsize_y>> ]

\* the location probed for output cell (i, j)
CellX(output_geotransform, i, j) ==
    output_geotransform[1] + j * output_geotransform[2] + i * output_geotransform[3]

CellY(output_geotransform, i, j) ==
    output_geotransform[4] + j * output_geotransform[5] + i * output_geotransform[6]

x_index(dataset, x) == TruncDiv(x - dataset.transform[1], dataset.transform[2])

y_index(dataset, y) == TruncDiv(y - dataset.transform[4], dataset.transform[6])

\* the test of lines 294-297
IndexInRange(dataset, x, y) ==
    /\ x_index(dataset, x) >= 0
    /\ x_index(dataset, x) < dataset.XSize
    /\ y_index(dataset, y) >= 0
    /\ y_index(dataset, y) < dataset.YSize

\* the inputs, in input order, that contribute a sample at (x, y)
Contributors(sources, x, y) ==
    SelectSeq([k \in 1..Len(sources) |-> k], LAMBDA k : IndexInRange(sources[k], x, y))

\* std::vector<int16_t> values after the inner loop, when every read succeeds
CellValues(sources, x, y) ==
    LET from == Contributors(sources, x, y)
    IN  [ k \in 1..Len(from) |->
            RasterIO(sources[from[k]], x_index(sources[from[k]], x), y_index(sources[from[k]], y), FALSE).value ]

Ascending(values) == SortSeq(values, LAMBDA a, b : a < b)

\* the lower middle element for an even count
MedianElement_lower(values) ==
    Ascending(values)[((Len(values) - 1) \div 2) + 1]

\* values[values.size() / 2] of the sorted values
MedianElement(values) ==
    Ascending(values)[(Len(values) \div 2) + 1]

\* the even/odd median of Utility::Merge(filepaths); int arithmetic, then int16_t
MedianAverage(values) ==
    LET sorted == Ascending(values)
        values_count == Len(values)
    IN  IF values_count % 2 = 0
        THEN TruncDiv(sorted[values_count \div 2] + sorted[(values_count \div 2) + 1], 2)
        ELSE sorted[(values_count \div 2) + 1]

\* what is written to a cell by GDEM::Utility::Merge and Utility::Merge(datasets)
CellMedian(sources, nodata_value, values) ==
    IF Len(values) = 0 THEN sources[1].NoDataValue ELSE MedianElement(values)

\* what is written to a cell by Utility::Merge(filepaths)
CellMedian_filepaths(sources, nodata_value, values) ==
    IF Len(values) = 0 THEN 0 ELSE MedianAverage(values)

\* A storage fault met while cell number fault.cell (row-major) is processed:
\* its first sample read fails ("read") or its write fails ("write").
NoFault == [kind |-> "none", cell |-> 0]

CellNo(output, i, j) == i * output.XSize + j

FaultFires(sources, output, fault) ==
    /\ fault.kind # "none"
    /\ \E i \in 0..(output.YSize - 1), j \in 0..(output.XSize - 1) :
        /\ CellNo(output, i, j) = fault.cell
        /\ fault.kind = "read" =>
            Len(Contributors(sources, CellX(output.transform, i, j), CellY(output.transform, i, j))) > 0

\* the merge loop of lines 278-323 over the output raster just created;
\* averaging selects the median of Utility::Merge(filepaths)
MergeLoop(sources, nodata_value, output, fault, averaging) ==
    LET Cell(values) == IF averaging THEN CellMedian_filepaths(sources, nodata_value, values)
                        ELSE CellMedian(sources, nodata_value, values)
        fires == FaultFires(sources, output, fault)
        written == { ij \in (0..(output.YSize - 1)) \X (0..(output.XSize - 1)) :
                        fires => CellNo(output, ij[1], ij[2]) < fault.cell }
    IN  [ status |-> IF ~fires THEN "ok"
                     ELSE IF fault.kind = "read" THEN "ReadFailed" ELSE "WriteFailed",
          XSize |-> output.XSize,
          YSize |-> output.YSize,
          NoDataValue |-> output.NoDataValue,
          transform |-> output.transform,
          cells |-> [ ij \in written |->
                        Cell(CellValues(sources, CellX(output.transform, ij[1], ij[2]),
                                                 CellY(output.transform, ij[1], ij[2]))) ],
          closed |-> TRUE ]

MergeRejected(status) ==
    [ status |-> status, XSize |-> 0, YSize |-> 0, NoDataValue |-> 0,
      transform |-> <<0, 0, 0, 0, 0, 0>>, cells |-> <<>>, closed |-> TRUE ]

\* GDEM::Utility::Merge(const std::vector<GDALDataset*>&, ...)
GDEM_Utility_Merge(sources, nodata_value, fault) ==
    IF Len(sources) = 0 THEN MergeRejected("EmptyInput")
    ELSE MergeLoop(sources, nodata_value, MergeCreate(sources, nodata_value), fault, FALSE)

\* Utility::Merge(std::vector<GDALDataset*>, ...)
Utility_Merge_datasets(sources, nodata_value, fault) ==
    IF Len(sources) = 0 THEN MergeRejected("EmptyInput")
    ELSE MergeLoop(sources, nodata_value, MergeCreate(sources, nodata_value), fault, FALSE)

\* Utility::Merge(std::vector<std::string>, ...): opens the files itself
Utility_Merge_filepaths(sources, nodata_value, fault) ==
    IF Len(sources) = 0 THEN MergeRejected("EmptyInput")
    ELSE MergeLoop(sources, nodata_value, MergeCreate(sources, nodata_value), fault, TRUE)

\* ------------------------------------------------------------------ state
VARIABLES
    dem,        \* the DEM object: its dataset, its Type and its Bounds
    ret,        \* the last call: operation, arguments and what it returned
    handles,    \* every raster handle GDALOpen has returned, and the GDALClose calls on it
    objects     \* the DEM objects of the calling program, by storage slot

vars == <<dem, ret, handles, objects>>

Latitudes(d) == (d.type.y_min - 1)..(d.type.y_max + 1)

Longitudes(d) == (d.type.x_min - 1)..(d.type.x_max + 1)

\* which of the reads a call issues meets a storage error: none (0) or the k-th
FailAt(reads) == 0..reads

\* rectangles for Bounds::within called on a Bounds built by the caller
Rectangles ==
    { Bounds(Coordinate(n, w), Coordinate(n, e), Coordinate(s, w), Coordinate(s, e)) :
        <<n, s, w, e>> \in { <<10, 0, 0, 10>>, <<4, -4, -6, 2>> } }

\* no call is in progress: the caller has consumed the last result
Idle == ret.op = "none"

\* points on, just inside and just outside the edges of the rectangles
EdgeLatitudes == {-5, -4, -1, 0, 4, 5, 9, 10, 11}

EdgeLongitudes == {-7, -6, -1, 0, 1, 2, 5, 10, 11}

Init ==
    /\ \E ds \in Datasets : dem = DEM_initialize(ds)
    /\ ret = [op |-> "none"]
    /\ handles = <<>>
    /\ objects = <<>>

Call_within ==
    \E b \in Rectangles, latitude \in EdgeLatitudes, longitude \in EdgeLongitudes :
        /\ Idle
        /\ ret' = [op |-> "within", bounds |-> b, latitude |-> latitude, longitude |-> longitude,
                   inside |-> within(b, latitude, longitude)]
        /\ UNCHANGED <<dem, handles, objects>>

Call_check_coordinates_bounds ==
    \E latitude \in Latitudes(dem), longitude \in Longitudes(dem) :
        /\ Idle
        /\ ret' = [op |-> "check_coordinates_bounds", latitude |-> latitude, longitude |-> longitude,
                   inside |-> check_coordinates_bounds(dem, latitude, longitude)]
        /\ UNCHANGED <<dem, handles, objects>>

\* what the caller sees of a call; each field holds values of one kind only:
\* `altitude` a sample, `interpolated` a fraction, `inside` a boolean
Query(op, answer, latitude, longitude, fail_at) ==
    [op |-> op, latitude |-> latitude, longitude |-> longitude, fail_at |-> fail_at,
     altitude |-> answer.value, reads |-> answer.reads, read_failed |-> answer.read_failed,
     raised |-> answer.raised]

InterpolatedQuery(op, answer, latitude, longitude, fail_at) ==
    [op |-> op, latitude |-> latitude, longitude |-> longitude, fail_at |-> fail_at,
     interpolated |-> answer.value, reads |-> answer.reads, read_failed |-> answer.read_failed,
     raised |-> answer.raised]

Call_altitude ==
    \E latitude \in Latitudes(dem), longitude \in Longitudes(dem), fail_at \in FailAt(1) :
        /\ Idle
        /\ ret' = Query("altitude", GDEM_DEM_altitude(dem, latitude, longitude, fail_at), latitude, longitude, fail_at)
        /\ UNCHANGED <<dem, handles, objects>>

Call_interpolated_altitude ==
    \E latitude \in Latitudes(dem), longitude \in Longitudes(dem), fail_at \in FailAt(4) :
        /\ Idle
        /\ ret' = InterpolatedQuery("interpolated_altitude",
                        GDEM_DEM_interpolated_altitude(dem, latitude, longitude, fail_at), latitude, longitude, fail_at)
        /\ UNCHANGED <<dem, handles, objects>>

Call_DEM_altitude ==
    \E latitude \in Latitudes(dem), longitude \in Longitudes(dem), fail_at \in FailAt(1) :
        /\ Idle
        /\ ret' = Query("DEM_altitude", DEM_altitude(dem, latitude, longitude, fail_at), latitude, longitude, fail_at)
        /\ UNCHANGED <<dem, handles, objects>>

Call_DEM_interpolated_altitude ==
    \E latitude \in Latitudes(dem), longitude \in Longitudes(dem), fail_at \in FailAt(4) :
        /\ Idle
        /\ ret' = InterpolatedQuery("DEM_interpolated_altitude",
                        DEM_interpolated_altitude(dem, latitude, longitude, fail_at), latitude, longitude, fail_at)
        /\ UNCHANGED <<dem, handles, objects>>

\* the caller takes the result; the object is ready for the next call.
\* A process stopped by a signal takes no further step.
Return ==
    /\ ~Idle
    /\ ret.op # "crash"
    /\ ret' = [op |-> "none"]
    /\ UNCHANGED <<dem, handles, objects>>

Next ==
    \/ Call_within
    \/ Call_check_coordinates_bounds
    \/ Call_altitude
    \/ Call_interpolated_altitude
    \/ Call_DEM_altitude
    \/ Call_DEM_interpolated_altitude
    \/ Return

Spec == Init /\ [][Next]_vars

\* ------------------------------------------------------------ Merge calls
\* every list of at most MaxInputs tiles, the empty list included
SourceLists ==
    UNION { { [k \in 1..n |-> Tiles[pick[k]]] : pick \in [1..n -> 1..Len(Tiles)] } : n \in 0..MaxInputs }

NoDataArguments == {INT16_MIN, 7}

Faults == {NoFault} \cup [kind : {"read", "write"}, cell : 0..MaxFaultCell]

Merged(op, sources, nodata_value, fault, out) ==
    [op |-> op, sources |-> sources, nodata_value |-> nodata_value, fault |-> fault, out |-> out]

Call_GDEM_Utility_Merge ==
    \E sources \in SourceLists, nodata_value \in NoDataArguments, fault \in Faults :
        /\ Idle
        /\ ret' = Merged("GDEM_Utility_Merge", sources, nodata_value, fault,
                         GDEM_Utility_Merge(sources, nodata_value, fault))
        /\ UNCHANGED <<dem, handles, objects>>

Call_Utility_Merge_datasets ==
    \E sources \in SourceLists, nodata_value \in NoDataArguments, fault \in Faults :
        /\ Idle
        /\ ret' = Merged("Utility_Merge_datasets", sources, nodata_value, fault,
                         Utility_Merge_datasets(sources, nodata_value, fault))
        /\ UNCHANGED <<dem, handles, objects>>

Call_Utility_Merge_filepaths ==
    \E sources \in SourceLists, nodata_value \in NoDataArguments, fault \in Faults :
        /\ Idle
        /\ ret' = Merged("Utility_Merge_filepaths", sources, nodata_value, fault,
                         Utility_Merge_filepaths(sources, nodata_value, fault))
        /\ UNCHANGED <<dem, handles, objects>>

\* the utilities are free functions: the DEM object plays no part in them
MergeInit ==
    /\ dem = DEM_initialize([YSize |-> 1, XSize |-> 1, transform |-> <<0, 2, 0, 10, 0, -2>>,
                             NoDataValue |-> 0, pattern |-> "ramp"])
    /\ ret = [op |-> "none"]
    /\ handles = <<>>
    /\ objects = <<>>

MergeNext ==
    \/ Call_GDEM_Utility_Merge
    \/ Call_Utility_Merge_datasets
    \/ Call_Utility_Merge_filepaths
    \/ Return

MergeSpec == MergeInit /\ [][MergeNext]_vars

\* ------------------------------------------------ raster files and handles
MaxObjects == 2
MaxHandles == 3

\* nullptr: no handle
NULL == 0

\* the paths the calling program uses
Paths == {"dem.tif", "utm.tif", "nogeo.tif", "broken.tif", "missing.tif"}

\* std::filesystem::exists(file_path)
exists(file_path) == file_path \in {"dem.tif", "east.tif", "utm.tif", "nogeo.tif", "broken.tif"}

\* GDALOpen(file_path, GA_ReadOnly) returns a handle and not nullptr
Opens(file_path) == file_path \in {"dem.tif", "east.tif", "utm.tif", "nogeo.tif"}

\* the raster behind a path: one in geographic degrees, its neighbour to
\* the east (they share the meridian x = 4), one in projected metres
\* (northing 4000), one whose geotransform cannot be read, and a
\* larger grid with coarser columns whose declared nodata value (11) is also
\* a sample
Raster(file_path) ==
    CASE file_path = "utm.tif" ->
            [YSize |-> 2, XSize |-> 2, transform |-> <<500, 30, 0, 4000, 0, -30>>, NoDataValue |-> -9999,
             pattern |-> "ramp", RasterCount |-> 1, transform_ok |-> TRUE]
      [] file_path = "nogeo.tif" ->
            [YSize |-> 2, XSize |-> 2, transform |-> <<0, 1, 0, 0, 0, 1>>, NoDataValue |-> -9999,
             pattern |-> "ramp", RasterCount |-> 1, transform_ok |-> FALSE]
      [] file_path = "east.tif" ->
            [YSize |-> 2, XSize |-> 2, transform |-> <<4, 2, 0, 10, 0, -2>>, NoDataValue |-> -9999,
             pattern |-> "ramp", RasterCount |-> 1, transform_ok |-> TRUE]
      [] file_path = "grid.tif" ->
            [YSize |-> MaxRows, XSize |-> MaxCols, transform |-> <<-4, 4, 0, 6, 0, -2>>, NoDataValue |-> 11,
             pattern |-> "ramp", RasterCount |-> 1, transform_ok |-> TRUE]
      [] OTHER ->
            [YSize |-> 2, XSize |-> 2, transform |-> <<0, 2, 0, 10, 0, -2>>, NoDataValue |-> -9999,
             pattern |-> "ramp", RasterCount |-> 1, transform_ok |-> TRUE]

\* GDALOpen: a new handle, numbered in the order of opening
GDALOpen(hs, file_path, by) == Append(hs, [file |-> file_path, closes |-> 0, by |-> by])

\* GDALClose(h)
GDALClose(hs, h) == [hs EXCEPT ![h].closes = @ + 1]

\* the Coordinate constructor throws
Coordinate_invalid(latitude, longitude) ==
    latitude > 90 \/ latitude < -90 \/ longitude > 180 \/ longitude < -180

\* GDEM::Type::initialize(dataset): the error it throws, and whether it has
\* called GDALClose(dataset) before throwing
Type_initialize_outcome(ds, raster_number) ==
    IF raster_number > ds.RasterCount THEN [error |-> "InvalidBand", closed |-> TRUE]
    ELSE IF ~ds.transform_ok THEN [error |-> "TransformUnavailable", closed |-> TRUE]
    ELSE [error |-> "none", closed |-> FALSE]

\* Type::Type(GDALDataset*) of the older class: throws without closing
Type_outcome(ds) ==
    IF ~ds.transform_ok THEN [error |-> "TransformUnavailable", closed |-> FALSE]
    ELSE [error |-> "none", closed |-> FALSE]

\* the four corners handed to Bounds(...) by DEM::initialize
Corners(type) ==
    { <<type.y_max, type.x_min>>, <<type.y_max, type.x_max>>,
      <<type.y_min, type.x_min>>, <<type.y_min, type.x_max>> }

\* GDEM::DEM::initialize on the handle the constructor has opened
DEM_initialize_outcome(ds, raster_number) ==
    LET t == Type_initialize_outcome(ds, raster_number)
        type == Type_initialize(ds, INT16_MIN)
    IN  IF raster_number > ds.RasterCount THEN [error |-> "InvalidBand", closed |-> TRUE]
        ELSE IF t.error # "none" THEN t
        ELSE IF \E c \in Corners(type) : Coordinate_invalid(c[1], c[2])
             THEN [error |-> "InvalidCoordinates", closed |-> FALSE]
        ELSE [error |-> "none", closed |-> FALSE]

\* GDEM::DEM(const std::string&) and GDEM::DEM(const std::filesystem::path&)
DEM_from_path_outcome(file_path, raster_number) ==
    IF ~exists(file_path) THEN [error |-> "FileNotFound", opened |-> FALSE, closed |-> FALSE]
    ELSE IF ~Opens(file_path) THEN [error |-> "OpenFailed", opened |-> FALSE, closed |-> FALSE]
    ELSE LET i == DEM_initialize_outcome(Raster(file_path), raster_number)
         IN  [error |-> i.error, opened |-> TRUE, closed |-> i.closed]

\* DEM::DEM(const std::string&) of the older class: band 1, no existence test
Legacy_DEM_outcome(filepath) ==
    IF ~Opens(filepath) THEN [error |-> "OpenFailed", opened |-> FALSE, closed |-> FALSE]
    ELSE LET t == Type_outcome(Raster(filepath))
         IN  [error |-> t.error, opened |-> TRUE, closed |-> t.closed]

\* a storage slot holding no object
NoObject == [alive |-> FALSE, class |-> "", dataset |-> NULL, data |-> NULL, file_path |-> "", described |-> ""]

\* a DEM object: its handle, the handle whose band it reads, its path, and the
\* raster its type and bounds describe
Object(class, dataset, data, file_path, described) ==
    [alive |-> TRUE, class |-> class, dataset |-> dataset, data |-> data,
     file_path |-> file_path, described |-> described]

\* file_path(std::move(file_path)) reads the member before its lifetime
\* began: the path it then holds is whatever the storage held
IndeterminatePaths == {"", "?"}

Slots == 1..MaxObjects

Live(class) == { s \in Slots : objects[s].alive /\ objects[s].class = class }

Free == { s \in Slots : ~objects[s].alive }

\* the process is stopped by a signal inside `in`
Crash(in) == [op |-> "crash", in |-> in]

\* ------------------------------------------------------- Utility::Clip
\* the pixel window of lines 398-407: truncated offsets, not clamped
Clip_window_unclamped(ds, top_left_x, top_left_y, bottom_right_x, bottom_right_y) ==
    LET geotransform == ds.transform
    IN  [ start_x |-> TruncDiv(top_left_x - geotransform[1], geotransform[2]),
          start_y |-> TruncDiv(top_left_y - geotransform[4], geotransform[6]),
          end_x |-> TruncDiv(bottom_right_x - geotransform[1], geotransform[2]),
          end_y |-> TruncDiv(bottom_right_y - geotransform[4], geotransform[6]) ]

\* the pixel window of lines 398-407: truncated offsets clamped to the source
Clip_window(ds, top_left_x, top_left_y, bottom_right_x, bottom_right_y) ==
    LET geotransform == ds.transform
        source_x_size == ds.XSize
        source_y_size == ds.YSize
    IN  [ start_x |-> Max2(0, Min2(TruncDiv(top_left_x - geotransform[1], geotransform[2]), source_x_size)),
          start_y |-> Max2(0, Min2(TruncDiv(top_left_y - geotransform[4], geotransform[6]), source_y_size)),
          end_x |-> Max2(0, Min2(TruncDiv(bottom_right_x - geotransform[1], geotransform[2]), source_x_size)),
          end_y |-> Max2(0, Min2(TruncDiv(bottom_right_y - geotransform[4], geotransform[6]), source_y_size)) ]

\* only a negative size is refused
ClipRegionInvalid_negative(output_x_size, output_y_size) ==
    output_x_size < 0 \/ output_y_size < 0

\* the test of line 412
ClipRegionInvalid(output_x_size, output_y_size) ==
    output_x_size <= 0 \/ output_y_size <= 0

NoWindow == [start_x |-> 0, start_y |-> 0, end_x |-> 0, end_y |-> 0]

\* Clip throws before driver->Create has returned a raster
ClipRefused(status, window) ==
    [ status |-> status, created |-> FALSE, closed |-> FALSE, XSize |-> 0, YSize |-> 0,
      transform |-> <<0, 0, 0, 0, 0, 0>>, cells |-> <<>>, window |-> window ]

\* the output raster is left open when the block read fails
GDEM_Utility_Clip_unclosed(ds, top_left_x, top_left_y, bottom_right_x, bottom_right_y, fault) ==
    LET geotransform == ds.transform
        w == Clip_window(ds, top_left_x, top_left_y, bottom_right_x, bottom_right_y)
        output_x_size == w.end_x - w.start_x
        output_y_size == w.end_y - w.start_y
        output_geotransform == << geotransform[1] + w.start_x * geotransform[2], geotransform[2], 0,
                                  geotransform[4] + w.start_y * geotransform[6], 0, geotransform[6] >>
        created == [ status |-> "ok", created |-> TRUE, closed |-> TRUE,
                     XSize |-> output_x_size, YSize |-> output_y_size,
                     transform |-> output_geotransform, cells |-> <<>>, window |-> w ]
    IN  IF ~ds.transform_ok THEN ClipRefused("TransformUnavailable", NoWindow)
        ELSE IF ClipRegionInvalid(output_x_size, output_y_size) THEN ClipRefused("InvalidClipRegion", w)
        ELSE IF fault.kind = "create" THEN ClipRefused("CreateFailed", w)
        ELSE IF fault.kind = "read" THEN [created EXCEPT !.status = "ReadFailed", !.closed = FALSE]
        ELSE IF fault.kind = "write" THEN [created EXCEPT !.status = "WriteFailed"]
        ELSE [created EXCEPT !.cells =
                [ ij \in (0..(output_y_size - 1)) \X (0..(output_x_size - 1)) |->
                    Sample(ds.pattern, w.start_y + ij[1], w.start_x + ij[2]) ]]

\* GDEM::Utility::Clip(GDALDataset*, ...) and Utility::Clip(GDALDataset*, ...):
\* one block read of the window, one block write of the output
GDEM_Utility_Clip(ds, top_left_x, top_left_y, bottom_right_x, bottom_right_y, fault) ==
    LET geotransform == ds.transform
        w == Clip_window(ds, top_left_x, top_left_y, bottom_right_x, bottom_right_y)
        output_x_size == w.end_x - w.start_x
        output_y_size == w.end_y - w.start_y
        output_geotransform == << geotransform[1] + w.start_x * geotransform[2], geotransform[2], 0,
                                  geotransform[4] + w.start_y * geotransform[6], 0, geotransform[6] >>
        created == [ status |-> "ok", created |-> TRUE, closed |-> TRUE,
                     XSize |-> output_x_size, YSize |-> output_y_size,
                     transform |-> output_geotransform, cells |-> <<>>, window |-> w ]
    IN  IF ~ds.transform_ok THEN ClipRefused("TransformUnavailable", NoWindow)
        ELSE IF ClipRegionInvalid(output_x_size, output_y_size) THEN ClipRefused("InvalidClipRegion", w)
        ELSE IF fault.kind = "create" THEN ClipRefused("CreateFailed", w)
        ELSE IF fault.kind = "read" THEN [created EXCEPT !.status = "ReadFailed"]
        ELSE IF fault.kind = "write" THEN [created EXCEPT !.status = "WriteFailed"]
        ELSE [created EXCEPT !.cells =
                [ ij \in (0..(output_y_size - 1)) \X (0..(output_x_size - 1)) |->
                    Sample(ds.pattern, w.start_y + ij[1], w.start_x + ij[2]) ]]

\* ------------------------------------------------------- object lifetimes
OwnInit ==
    /\ dem = DEM_initialize([YSize |-> 1, XSize |-> 1, transform |-> <<0, 2, 0, 10, 0, -2>>,
                             NoDataValue |-> 0, pattern |-> "ramp"])
    /\ ret = [op |-> "none"]
    /\ handles = <<[file |-> "dem.tif", closes |-> 0, by |-> "caller"]>>
    /\ objects = [s \in Slots |-> NoObject]

\* GDEM::DEM<T, raster_number> object(file_path)
Construct_from_path ==
    \E slot \in Free, file_path \in Paths, raster_number \in 1..2 :
        LET o == DEM_from_path_outcome(file_path, raster_number)
            h == Len(handles) + 1
            opened == GDALOpen(handles, file_path, "DEM")
        IN  /\ Idle
            /\ Len(handles) < MaxHandles
            /\ handles' = IF ~o.opened THEN handles
                          ELSE IF o.closed THEN GDALClose(opened, h) ELSE opened
            /\ objects' = IF o.error = "none"
                          THEN [objects EXCEPT ![slot] = Object("GDEM::DEM", h, h, file_path, file_path)]
                          ELSE objects
            /\ ret' = [op |-> "DEM(path)", target |-> slot, file_path |-> file_path,
                       raster_number |-> raster_number, error |-> o.error,
                       handle |-> IF o.opened THEN h ELSE NULL]
            /\ UNCHANGED dem

\* GDEM::DEM<T> object(dataset): initialize() tests this->dataset, which the
\* constructor has set to nullptr, before it looks at its argument
Construct_from_handle ==
    \E slot \in Free, h \in 1..Len(handles) :
        /\ Idle
        /\ handles[h].by = "caller"
        /\ handles[h].closes = 0
        /\ ret' = Crash("DEM(GDALDataset*)")
        /\ UNCHANGED <<dem, handles, objects>>

\* GDEM::DEM copy(o)
Copy_construct ==
    \E slot \in Free, from \in Live("GDEM::DEM") :
        LET o == objects[from]
            h == Len(handles) + 1
        IN  /\ Idle
            /\ Len(handles) < MaxHandles
            /\ IF o.dataset = NULL
               THEN /\ objects' = [objects EXCEPT ![slot] = Object("GDEM::DEM", NULL, NULL, o.file_path, o.described)]
                    /\ ret' = [op |-> "copy", target |-> slot, source |-> from, source_handle |-> NULL,
                               error |-> "none", handle |-> NULL]
                    /\ UNCHANGED handles
               ELSE IF Opens(o.file_path)
               THEN /\ handles' = GDALOpen(handles, o.file_path, "DEM")
                    /\ objects' = [objects EXCEPT ![slot] = Object("GDEM::DEM", h, h, o.file_path, o.described)]
                    /\ ret' = [op |-> "copy", target |-> slot, source |-> from, source_handle |-> o.dataset,
                               error |-> "none", handle |-> h]
               ELSE /\ ret' = Crash("DEM(const DEM&)")
                    /\ UNCHANGED <<handles, objects>>
            /\ UNCHANGED dem

\* target = o (copy assignment)
Copy_assign ==
    \E slot \in Live("GDEM::DEM"), from \in Live("GDEM::DEM") :
        LET o == objects[from]
            mine == objects[slot].dataset
            released == IF mine # NULL THEN GDALClose(handles, mine) ELSE handles
            h == Len(handles) + 1
        IN  /\ Idle
            /\ Len(handles) < MaxHandles
            /\ IF slot = from
               THEN /\ ret' = [op |-> "copy", target |-> slot, source |-> from, source_handle |-> o.dataset,
                               error |-> "none", handle |-> o.dataset]
                    /\ UNCHANGED <<handles, objects>>
               ELSE IF o.dataset = NULL
               THEN /\ handles' = released
                    /\ objects' = [objects EXCEPT ![slot] = Object("GDEM::DEM", NULL, NULL, o.file_path, o.described)]
                    /\ ret' = [op |-> "copy", target |-> slot, source |-> from, source_handle |-> NULL,
                               error |-> "none", handle |-> NULL]
               ELSE IF Opens(o.file_path)
               THEN /\ handles' = GDALOpen(released, o.file_path, "DEM")
                    /\ objects' = [objects EXCEPT ![slot] = Object("GDEM::DEM", h, h, o.file_path, o.described)]
                    /\ ret' = [op |-> "copy", target |-> slot, source |-> from, source_handle |-> o.dataset,
                               error |-> "none", handle |-> h]
               ELSE /\ handles' = released
                    /\ objects' = [objects EXCEPT ![slot] = Object("GDEM::DEM", NULL, NULL, o.file_path, o.described)]
                    /\ ret' = Crash("DEM::operator=(const DEM&)")
            /\ UNCHANGED dem

\* GDEM::DEM moved(std::move(o))
Move_construct ==
    \E slot \in Free, from \in Live("GDEM::DEM") :
        LET o == objects[from]
        IN  /\ Idle
            /\ \/ \E garbage \in IndeterminatePaths :
                    /\ objects' = [objects EXCEPT
                                      ![slot] = Object("GDEM::DEM", o.dataset, o.data, garbage, o.described),
                                      ![from] = Object("GDEM::DEM", NULL, NULL, o.file_path, o.described)]
                    /\ ret' = [op |-> "move", target |-> slot, source |-> from, source_handle |-> o.dataset,
                               error |-> "none", handle |-> o.dataset]
               \/ /\ ret' = Crash("DEM(DEM&&)")
                  /\ UNCHANGED objects
            /\ UNCHANGED <<dem, handles>>

\* target = std::move(o) (move assignment)
Move_assign ==
    \E slot \in Live("GDEM::DEM"), from \in Live("GDEM::DEM") :
        LET o == objects[from]
            mine == objects[slot].dataset
        IN  /\ Idle
            /\ IF slot = from
               THEN /\ ret' = [op |-> "move", target |-> slot, source |-> from, source_handle |-> NULL,
                               error |-> "none", handle |-> o.dataset]
                    /\ UNCHANGED <<handles, objects>>
               ELSE /\ handles' = IF mine # NULL THEN GDALClose(handles, mine) ELSE handles
                    /\ objects' = [objects EXCEPT
                                      ![slot] = Object("GDEM::DEM", o.dataset, o.data, o.file_path, o.described),
                                      ![from] = Object("GDEM::DEM", NULL, NULL, "", o.described)]
                    /\ ret' = [op |-> "move", target |-> slot, source |-> from, source_handle |-> o.dataset,
                               error |-> "none", handle |-> o.dataset]
            /\ UNCHANGED dem

\* GDEM::DEM::~DEM()
Destroy ==
    \E slot \in Live("GDEM::DEM") :
        LET mine == objects[slot].dataset
        IN  /\ Idle
            /\ handles' = IF mine # NULL THEN GDALClose(handles, mine) ELSE handles
            /\ objects' = [objects EXCEPT ![slot] = NoObject]
            /\ ret' = [op |-> "~DEM", target |-> slot, handle |-> mine]
            /\ UNCHANGED dem

\* DEM object(filepath) of the older class
Construct_legacy ==
    \E slot \in Free, filepath \in Paths :
        LET o == Legacy_DEM_outcome(filepath)
            h == Len(handles) + 1
            opened == GDALOpen(handles, filepath, "DEM")
        IN  /\ Idle
            /\ Len(handles) < MaxHandles
            /\ handles' = IF ~o.opened THEN handles
                          ELSE IF o.closed THEN GDALClose(opened, h) ELSE opened
            /\ objects' = IF o.error = "none"
                          THEN [objects EXCEPT ![slot] = Object("DEM", h, h, filepath, filepath)]
                          ELSE objects
            /\ ret' = [op |-> "::DEM(path)", target |-> slot, file_path |-> filepath,
                       raster_number |-> 1, error |-> o.error,
                       handle |-> IF o.opened THEN h ELSE NULL]
            /\ UNCHANGED dem

\* DEM::~DEM() of the older class
Destroy_legacy ==
    \E slot \in Live("DEM") :
        LET mine == objects[slot].dataset
        IN  /\ Idle
            /\ handles' = IF mine # NULL THEN GDALClose(handles, mine) ELSE handles
            /\ objects' = [objects EXCEPT ![slot] = NoObject]
            /\ ret' = [op |-> "~DEM", target |-> slot, handle |-> mine]
            /\ UNCHANGED dem

OwnNext ==
    \/ Construct_from_path
    \/ Construct_from_handle
    \/ Copy_construct
    \/ Copy_assign
    \/ Move_construct
    \/ Move_assign
    \/ Destroy
    \/ Construct_legacy
    \/ Destroy_legacy
    \/ Return

OwnSpec == OwnInit /\ [][OwnNext]_vars

\* --------------------------------------------------- Utility::Reproject
\* the sample written for source pixel (y, x): the source's nodata value is
\* replaced by nodata_value
ReprojectValue(ds, nodata_value, y, x) ==
    IF Sample(ds.pattern, y, x) = ds.NoDataValue THEN nodata_value ELSE Sample(ds.pattern, y, x)

\* Reproject throws before driver->Create has returned a raster
ReprojectRefused(status) ==
    [ status |-> status, created |-> FALSE, closed |-> FALSE, XSize |-> 0, YSize |-> 0,
      NoDataValue |-> 0, transform |-> <<0, 0, 0, 0, 0, 0>>, cells |-> <<>> ]

\* GDEM::Utility::Reproject(GDALDataset*, ...) and Utility::Reproject(GDALDataset*, ...):
\* one block read of the whole band, then one write per cell in row-major order
GDEM_Utility_Reproject(ds, nodata_value, fault) ==
    LET rows == ds.YSize
        columns == ds.XSize
        fires == fault.kind = "write" /\ fault.cell < rows * columns
        written == { yx \in (0..(rows - 1)) \X (0..(columns - 1)) :
                        fires => yx[1] * columns + yx[2] < fault.cell }
        created == [ status |-> "ok", created |-> TRUE, closed |-> TRUE,
                     XSize |-> columns, YSize |-> rows, NoDataValue |-> 0,
                     transform |-> <<0, 0, 0, 0, 0, 0>>, cells |-> <<>> ]
    IN  IF fault.kind = "transformation" THEN ReprojectRefused("TransformationUnavailable")
        ELSE IF fault.kind = "create" THEN ReprojectRefused("CreateFailed")
        ELSE IF ~ds.transform_ok THEN [created EXCEPT !.status = "TransformUnavailable"]
        ELSE IF fault.kind = "read"
             THEN [created EXCEPT !.status = "ReadFailed", !.NoDataValue = nodata_value,
                                  !.transform = ds.transform]
        ELSE [created EXCEPT !.status = IF fires THEN "WriteFailed" ELSE "ok",
                             !.NoDataValue = nodata_value,
                             !.transform = ds.transform,
                             !.cells = [ yx \in written |-> ReprojectValue(ds, nodata_value, yx[1], yx[2]) ]]

\* ---------------------------------------------------- Utility::Resample
\* the source's pixel sizes are kept
Resample_geotransform_unscaled(ds, output_width, output_height) ==
    LET geotransform == ds.transform
    IN  << FromInt(geotransform[1]), FromInt(geotransform[2]), FromInt(0),
           FromInt(geotransform[4]), FromInt(0), FromInt(geotransform[6]) >>

\* the output geotransform of lines 528-534
Resample_geotransform(ds, output_width, output_height) ==
    LET geotransform == ds.transform
    IN  << FromInt(geotransform[1]), Frac(geotransform[2] * ds.XSize, output_width), FromInt(0),
           FromInt(geotransform[4]), FromInt(0), Frac(geotransform[6] * ds.YSize, output_height) >>

ResampleRefused(status) ==
    [ status |-> status, created |-> FALSE, closed |-> FALSE, XSize |-> 0, YSize |-> 0,
      geotransform |-> [k \in 1..6 |-> FromInt(0)] ]

\* GDEM::Utility::Resample(GDALDataset*, ...) and Utility::Resample(GDALDataset*, ...);
\* the samples are computed by GDALReprojectImage
GDEM_Utility_Resample(ds, output_width, output_height, fault) ==
    LET created == [ status |-> "ok", created |-> TRUE, closed |-> TRUE,
                     XSize |-> output_width, YSize |-> output_height,
                     geotransform |-> Resample_geotransform(ds, output_width, output_height) ]
    IN  IF ~ds.transform_ok THEN ResampleRefused("TransformUnavailable")
        ELSE IF fault.kind = "create" THEN ResampleRefused("CreateFailed")
        ELSE IF fault.kind = "warp" THEN [created EXCEPT !.status = "ResampleFailed"]
        ELSE created

\* ---------------------------------------------------- Utility::Metadata
\* GDEM::Utility::Metadata(GDALDataset*) and GDEM::Metadata(GDALDataset*):
\* the error thrown, and whether GDALClose(dataset) was called first
Metadata_outcome(ds) ==
    IF ~ds.transform_ok THEN [error |-> "TransformUnavailable", closed |-> TRUE]
    ELSE [error |-> "none", closed |-> FALSE]

\* ------------------------------------------- Utility::Merge on handles
\* GDEM::Utility::Merge on rasters whose geotransform may be unreadable: the
\* first loop throws before the output raster is created
GDEM_Utility_Merge_handles(sources, nodata_value, fault) ==
    IF Len(sources) = 0 THEN MergeRejected("EmptyInput")
    ELSE IF \E k \in 1..Len(sources) : ~sources[k].transform_ok THEN MergeRejected("TransformUnavailable")
    ELSE GDEM_Utility_Merge(sources, nodata_value, fault)

\* ------------------------------------------------- calls on raster handles
\* the handles the caller has opened and not closed
Supplied == { h \in 1..Len(handles) : handles[h].by = "caller" /\ handles[h].closes = 0 }

\* the caller's handles after a call that did or did not close handle h
AfterCall(h, closed) == IF closed THEN GDALClose(handles, h) ELSE handles

\* corner coordinates for Clip: on, inside and outside the rasters' edges
ClipXs == {-9, -4, 3, 13}

ClipYs == {12, 6, 3, -1}

ClipFaults == {NoFault} \cup [kind : {"create", "read", "write"}, cell : {0}]

ReprojectFaults == Faults \cup [kind : {"transformation", "create"}, cell : {0}]

ResampleFaults == {NoFault} \cup [kind : {"create", "warp"}, cell : {0}]

OutputSizes == 1..(MaxCols + 1)

UtilityInit ==
    /\ dem = DEM_initialize([YSize |-> 1, XSize |-> 1, transform |-> <<0, 2, 0, 10, 0, -2>>,
                             NoDataValue |-> 0, pattern |-> "ramp"])
    /\ ret = [op |-> "none"]
    /\ handles = << [file |-> "dem.tif", closes |-> 0, by |-> "caller"],
                    [file |-> "grid.tif", closes |-> 0, by |-> "caller"],
                    [file |-> "nogeo.tif", closes |-> 0, by |-> "caller"] >>
    /\ objects = [s \in Slots |-> NoObject]

\* GDEM::Type<T, raster_number> type(dataset)
Call_Type ==
    \E h \in Supplied, raster_number \in 1..2 :
        LET o == Type_initialize_outcome(Raster(handles[h].file), raster_number)
        IN  /\ Idle
            /\ ret' = [op |-> "Type", supplied |-> <<h>>, raster_number |-> raster_number, error |-> o.error]
            /\ handles' = AfterCall(h, o.closed)
            /\ UNCHANGED <<dem, objects>>

\* Type type(dataset) of the older class
Call_legacy_Type ==
    \E h \in Supplied :
        LET o == Type_outcome(Raster(handles[h].file))
        IN  /\ Idle
            /\ ret' = [op |-> "::Type", supplied |-> <<h>>, raster_number |-> 1, error |-> o.error]
            /\ handles' = AfterCall(h, o.closed)
            /\ UNCHANGED <<dem, objects>>

Call_Metadata ==
    \E h \in Supplied :
        LET o == Metadata_outcome(Raster(handles[h].file))
        IN  /\ Idle
            /\ ret' = [op |-> "Metadata", supplied |-> <<h>>, error |-> o.error]
            /\ handles' = AfterCall(h, o.closed)
            /\ UNCHANGED <<dem, objects>>

Call_Reproject ==
    \E h \in Supplied, nodata_value \in NoDataArguments, fault \in ReprojectFaults :
        /\ Idle
        /\ ret' = [op |-> "Reproject", supplied |-> <<h>>, source |-> Raster(handles[h].file),
                   nodata_value |-> nodata_value, fault |-> fault,
                   out |-> GDEM_Utility_Reproject(Raster(handles[h].file), nodata_value, fault)]
        /\ UNCHANGED <<dem, handles, objects>>

Call_Clip ==
    \E h \in Supplied, top_left_x \in ClipXs, bottom_right_x \in ClipXs,
       top_left_y \in ClipYs, bottom_right_y \in ClipYs, fault \in ClipFaults :
        /\ Idle
        /\ ret' = [op |-> "Clip", supplied |-> <<h>>, source |-> Raster(handles[h].file),
                   top_left_x |-> top_left_x, top_left_y |-> top_left_y,
                   bottom_right_x |-> bottom_right_x, bottom_right_y |-> bottom_right_y,
                   fault |-> fault,
                   out |-> GDEM_Utility_Clip(Raster(handles[h].file), top_left_x, top_left_y,
                                             bottom_right_x, bottom_right_y, fault)]
        /\ UNCHANGED <<dem, handles, objects>>

Call_Resample ==
    \E h \in Supplied, output_width \in OutputSizes, output_height \in OutputSizes, fault \in ResampleFaults :
        /\ Idle
        /\ ret' = [op |-> "Resample", supplied |-> <<h>>, source |-> Raster(handles[h].file),
                   output_width |-> output_width, output_height |-> output_height, fault |-> fault,
                   resampled |-> GDEM_Utility_Resample(Raster(handles[h].file), output_width, output_height, fault)]
        /\ UNCHANGED <<dem, handles, objects>>

\* GDEM::Utility::Merge on one or two of the caller's handles
Call_Merge ==
    \E first \in Supplied, second \in Supplied \cup {NULL}, nodata_value \in NoDataArguments, fault \in Faults :
        LET supplied == IF second = NULL THEN <<first>> ELSE <<first, second>>
            sources == [k \in 1..Len(supplied) |-> Raster(handles[supplied[k]].file)]
        IN  /\ Idle
            /\ ret' = [op |-> "Merge", supplied |-> supplied, sources |-> sources,
                       nodata_value |-> nodata_value, fault |-> fault,
                       out |-> GDEM_Utility_Merge_handles(sources, nodata_value, fault)]
            /\ UNCHANGED <<dem, handles, objects>>

UtilityNext ==
    \/ Call_Type
    \/ Call_legacy_Type
    \/ Call_Metadata
    \/ Construct_from_handle
    \/ Call_Reproject
    \/ Call_Clip
    \/ Call_Resample
    \/ Call_Merge
    \/ Return

UtilitySpec == UtilityInit /\ [][UtilityNext]_vars

\* ------------------------------------------------- Utility::Coverage
MaxCatalog == 3

\* the files a catalog may name: two adjacent rasters, a distant one, one
\* without a geotransform, one that exists but is no raster, one missing
CatalogPaths == {"dem.tif", "east.tif", "utm.tif", "nogeo.tif", "broken.tif", "missing.tif"}

RECURSIVE SeqsUpTo(_, _)
SeqsUpTo(S, n) ==
    IF n = 0 THEN {<<>>}
    ELSE LET shorter == SeqsUpTo(S, n - 1)
         IN  shorter \cup {Append(q, x) : q \in {p \in shorter : Len(p) = n - 1}, x \in S}

Catalogs == SeqsUpTo(CatalogPaths, MaxCatalog)

CoverXs == {-2, 4, 9}

CoverYs == {12, 6, 5}

Coverage_test_exclusive(dataset, top_left_x, top_left_y, bottom_right_x, bottom_right_y) ==
    LET geotransform == dataset.transform
        min_x == geotransform[1]
        max_x == geotransform[1] + dataset.XSize * geotransform[2]
        min_y == geotransform[4] + dataset.YSize * geotransform[6]
        max_y == geotransform[4]
    IN  /\ max_x > top_left_x /\ min_x < bottom_right_x
        /\ max_y > bottom_right_y /\ min_y < top_left_y

\* the test of the loop body: the dataset falls within the region
Coverage_test(dataset, top_left_x, top_left_y, bottom_right_x, bottom_right_y) ==
    LET geotransform == dataset.transform
        min_x == geotransform[1]
        max_x == geotransform[1] + dataset.XSize * geotransform[2]
        min_y == geotransform[4] + dataset.YSize * geotransform[6]
        max_y == geotransform[4]
    IN  /\ max_x >= top_left_x /\ min_x <= bottom_right_x
        /\ max_y >= bottom_right_y /\ min_y <= top_left_y

\* the loop over filepaths from entry k on: the results so far and the
\* handles the function has opened and closed
RECURSIVE CoverageLoop(_, _, _, _, _, _, _)
CoverageLoop(filepaths, k, acc, top_left_x, top_left_y, bottom_right_x, bottom_right_y) ==
    IF k > Len(filepaths) THEN acc
    ELSE LET filepath == filepaths[k]
             opened == GDALOpen(acc.opened, filepath, "Coverage")
             h == Len(opened)
             dataset == Raster(filepath)
             next ==
                 IF ~Opens(filepath) THEN acc
                 ELSE IF ~dataset.transform_ok
                 THEN [acc EXCEPT !.opened = GDALClose(opened, h)]
                 ELSE [results |-> IF Coverage_test(dataset, top_left_x, top_left_y,
                                                    bottom_right_x, bottom_right_y)
                                   THEN Append(acc.results, filepath)
                                   ELSE acc.results,
                       opened |-> GDALClose(opened, h)]
         IN  CoverageLoop(filepaths, k + 1, next, top_left_x, top_left_y, bottom_right_x, bottom_right_y)

\* GDEM::Utility::Coverage(filepaths, top_left_x, top_left_y, bottom_right_x,
\* bottom_right_y); it has no throw statement
GDEM_Utility_Coverage(filepaths, top_left_x, top_left_y, bottom_right_x, bottom_right_y) ==
    CoverageLoop(filepaths, 1, [results |-> <<>>, opened |-> <<>>],
                 top_left_x, top_left_y, bottom_right_x, bottom_right_y)

CoverageInit ==
    /\ dem = DEM_initialize([YSize |-> 1, XSize |-> 1, transform |-> <<0, 2, 0, 10, 0, -2>>,
                             NoDataValue |-> 0, pattern |-> "ramp"])
    /\ ret = [op |-> "none"]
    /\ handles = <<>>
    /\ objects = <<>>

Call_Coverage ==
    /\ Idle
    /\ \E filepaths \in Catalogs, top_left_x \in CoverXs, bottom_right_x \in CoverXs,
          top_left_y \in CoverYs, bottom_right_y \in CoverYs :
           LET o == GDEM_Utility_Coverage(filepaths, top_left_x, top_left_y, bottom_right_x, bottom_right_y)
           IN  ret' = [op |-> "Coverage", filepaths |-> filepaths,
                       top_left_x |-> top_left_x, top_left_y |-> top_left_y,
                       bottom_right_x |-> bottom_right_x, bottom_right_y |-> bottom_right_y,
                       results |-> o.results, opened |-> o.opened, error |-> "none"]
    /\ UNCHANGED <<dem, handles, objects>>

CoverageNext ==
    \/ Call_Coverage
    \/ Return

CoverageSpec == CoverageInit /\ [][CoverageNext]_vars

\* ------------------------------------ Utility::CoordinatesAlongPolygon
\* Latitudes and longitudes are counted in arcseconds (1/3600 degree), so
\* that distance / (interval_arcseconds / 3600.0), a quotient of degrees, is
\* the quotient of the distance in arcseconds by interval_arcseconds.
\* Emitted coordinates are exact fractions of an arcsecond; the quotient 0/0
\* of floats (NaN) is the fraction with n = 0 and d = 0, and arithmetic on
\* it yields it again.
MaxPoints == 3

PolygonLatitudes == {0, 1, 3}

PolygonLongitudes == {0, 2}

PolygonInputs == {<<latitude, longitude>> : latitude \in PolygonLatitudes, longitude \in PolygonLongitudes}

Polygons == SeqsUpTo(PolygonInputs, MaxPoints)

Intervals == {1, 2}

\* static_cast<int>(distance / (interval_arcseconds / 3600.0)), distance
\* being the square root of the sum of the squared differences
Steps(latitude_a, longitude_a, latitude_b, longitude_b, interval_arcseconds) ==
    LET squared == (latitude_b - latitude_a) * (latitude_b - latitude_a)
                   + (longitude_b - longitude_a) * (longitude_b - longitude_a)
    IN  CHOOSE k \in 0..squared :
            /\ k * interval_arcseconds * k * interval_arcseconds <= squared
            /\ (k + 1) * interval_arcseconds * (k + 1) * interval_arcseconds > squared

\* the lambda coordinates_along_line: the points it pushes back
coordinates_along_line(latitude_a, longitude_a, latitude_b, longitude_b, interval_arcseconds) ==
    LET steps == Steps(latitude_a, longitude_a, latitude_b, longitude_b, interval_arcseconds)
    IN  [k \in 1..(steps + 1) |->
            LET i == k - 1
                fraction == [n |-> i, d |-> steps]
            IN  [latitude |-> FracAdd(FromInt(latitude_a), FracMul(fraction, FromInt(latitude_b - latitude_a))),
                 longitude |-> FracAdd(FromInt(longitude_a), FracMul(fraction, FromInt(longitude_b - longitude_a)))]]

\* the loop over consecutive points, from segment i on
RECURSIVE PolygonLoop(_, _, _, _)
PolygonLoop(polygon_points, i, coordinates, interval_arcseconds) ==
    IF i > Len(polygon_points) - 1 THEN coordinates
    ELSE PolygonLoop(polygon_points, i + 1,
                     coordinates \o coordinates_along_line(polygon_points[i][1], polygon_points[i][2],
                                                           polygon_points[i + 1][1], polygon_points[i + 1][2],
                                                           interval_arcseconds),
                     interval_arcseconds)

\* GDEM::Utility::CoordinatesAlongPolygon(polygon_points, interval_arcseconds)
GDEM_Utility_CoordinatesAlongPolygon(polygon_points, interval_arcseconds) ==
    IF Len(polygon_points) < 2
    THEN [error |-> "InsufficientPoints", coordinates |-> <<>>]
    ELSE [error |-> "none", coordinates |-> PolygonLoop(polygon_points, 1, <<>>, interval_arcseconds)]

PolygonInit ==
    /\ dem = DEM_initialize([YSize |-> 1, XSize |-> 1, transform |-> <<0, 2, 0, 10, 0, -2>>,
                             NoDataValue |-> 0, pattern |-> "ramp"])
    /\ ret = [op |-> "none"]
    /\ handles = <<>>
    /\ objects = <<>>

Call_CoordinatesAlongPolygon ==
    /\ Idle
    /\ \E polygon_points \in Polygons, interval_arcseconds \in Intervals :
           LET o == GDEM_Utility_CoordinatesAlongPolygon(polygon_points, interval_arcseconds)
           IN  ret' = [op |-> "CoordinatesAlongPolygon", polygon_points |-> polygon_points,
                       interval_arcseconds |-> interval_arcseconds,
                       coordinates |-> o.coordinates, error |-> o.error]
    /\ UNCHANGED <<dem, handles, objects>>

PolygonNext ==
    \/ Call_CoordinatesAlongPolygon
    \/ Return

PolygonSpec == PolygonInit /\ [][PolygonNext]_vars

\* ------------------------------------------- utilities called on paths
\* The overloads that take a source path open the file, hand the handle to
\* the overload that takes a handle, and close it after that has returned.
\* A call is summarised by the error the caller receives, whether an output
\* raster was created, and the handles the call opened with their closes.
PathSources == {"dem.tif", "nogeo.tif", "broken.tif", "missing.tif"}

PathOutcome(error, created, opened) == [error |-> error, created |-> created, opened |-> opened]

\* the statement after the delegated call is reached only if that call
\* returns normally
AfterDelegate(status, created, opened) ==
    IF status = "ok" THEN PathOutcome("none", created, GDALClose(opened, 1))
    ELSE PathOutcome(status, created, opened)

\* GDEM::Utility::Reproject(const std::string& source_filepath, ...)
GDEM_Utility_Reproject_path(source_filepath, nodata_value, fault) ==
    IF ~exists(source_filepath) THEN PathOutcome("FileNotFound", FALSE, <<>>)
    ELSE IF ~Opens(source_filepath) THEN PathOutcome("OpenFailed", FALSE, <<>>)
    ELSE LET out == GDEM_Utility_Reproject(Raster(source_filepath), nodata_value, fault)
         IN  AfterDelegate(out.status, out.created, GDALOpen(<<>>, source_filepath, "Reproject"))

\* GDEM::Utility::Clip(const std::string& source_filepath, ...)
GDEM_Utility_Clip_path(source_filepath, top_left_x, top_left_y, bottom_right_x, bottom_right_y, fault) ==
    IF ~exists(source_filepath) THEN PathOutcome("FileNotFound", FALSE, <<>>)
    ELSE IF ~Opens(source_filepath) THEN PathOutcome("OpenFailed", FALSE, <<>>)
    ELSE LET out == GDEM_Utility_Clip(Raster(source_filepath), top_left_x, top_left_y,
                                      bottom_right_x, bottom_right_y, fault)
         IN  AfterDelegate(out.status, out.created, GDALOpen(<<>>, source_filepath, "Clip"))

\* GDEM::Utility::Resample(const std::string& source_filepath, ...)
GDEM_Utility_Resample_path(source_filepath, output_width, output_height, fault) ==
    IF ~exists(source_filepath) THEN PathOutcome("FileNotFound", FALSE, <<>>)
    ELSE IF ~Opens(source_filepath) THEN PathOutcome("OpenFailed", FALSE, <<>>)
    ELSE LET out == GDEM_Utility_Resample(Raster(source_filepath), output_width, output_height, fault)
         IN  AfterDelegate(out.status, out.created, GDALOpen(<<>>, source_filepath, "Resample"))

\* the handles GDALOpen returns for the paths, in order; nullptr is pushed
\* back for a path that cannot be opened and is no handle
RECURSIVE OpenAll(_, _)
OpenAll(source_filepaths, opened) ==
    IF source_filepaths = <<>> THEN opened
    ELSE OpenAll(Tail(source_filepaths),
                 IF Opens(Head(source_filepaths)) THEN GDALOpen(opened, Head(source_filepaths), "Merge")
                 ELSE opened)

\* GDALClose on every handle of the list
CloseAll(opened) == [h \in 1..Len(opened) |-> [opened[h] EXCEPT !.closes = @ + 1]]

\* the first loop of Merge(datasets) over the pointers pushed back: it calls
\* GetGeoTransform through each in turn, a nullptr included
RECURSIVE FirstLoop(_)
FirstLoop(source_filepaths) ==
    IF source_filepaths = <<>> THEN "ok"
    ELSE IF ~Opens(Head(source_filepaths)) THEN "crash"
    ELSE IF ~Raster(Head(source_filepaths)).transform_ok THEN "TransformUnavailable"
    ELSE FirstLoop(Tail(source_filepaths))

\* GDEM::Utility::Merge(const std::vector<std::string>& source_filepaths, ...)
GDEM_Utility_Merge_paths(source_filepaths, nodata_value, fault) ==
    IF Len(source_filepaths) = 0 THEN PathOutcome("EmptyInput", FALSE, <<>>)
    ELSE IF \E k \in 1..Len(source_filepaths) : ~exists(source_filepaths[k])
    THEN PathOutcome("FileNotFound", FALSE, <<>>)
    ELSE LET opened == OpenAll(source_filepaths, <<>>)
             first == FirstLoop(source_filepaths)
         IN  IF first # "ok" THEN PathOutcome(first, FALSE, opened)
             ELSE LET out == GDEM_Utility_Merge([k \in 1..Len(source_filepaths) |-> Raster(source_filepaths[k])],
                                                nodata_value, fault)
                  IN  IF out.status = "ok" THEN PathOutcome("none", TRUE, CloseAll(opened))
                      ELSE PathOutcome(out.status, TRUE, opened)

\* GDEM::Coordinate(float latitude, float longitude)
Coordinate_outcome(latitude, longitude) ==
    IF Coordinate_invalid(latitude, longitude) THEN "InvalidCoordinate" ELSE "none"

PathLists == SeqsUpTo(PathSources, MaxInputs)

CoordinateLatitudes == {-91, -90, 0, 90, 91}

CoordinateLongitudes == {-181, -180, 0, 180, 181}

PathInit ==
    /\ dem = DEM_initialize([YSize |-> 1, XSize |-> 1, transform |-> <<0, 2, 0, 10, 0, -2>>,
                             NoDataValue |-> 0, pattern |-> "ramp"])
    /\ ret = [op |-> "none"]
    /\ handles = <<>>
    /\ objects = <<>>

PathCall(op, source_filepaths, fault, o) ==
    [op |-> op, source_filepaths |-> source_filepaths, fault |-> fault,
     error |-> o.error, created |-> o.created, opened |-> o.opened]

Call_Reproject_path ==
    /\ Idle
    /\ \E source_filepath \in PathSources, nodata_value \in NoDataArguments, fault \in ReprojectFaults :
           ret' = PathCall("Reproject(path)", <<source_filepath>>, fault,
                           GDEM_Utility_Reproject_path(source_filepath, nodata_value, fault))
    /\ UNCHANGED <<dem, handles, objects>>

Call_Clip_path ==
    /\ Idle
    /\ \E source_filepath \in PathSources, top_left_x \in ClipXs, bottom_right_x \in ClipXs,
          top_left_y \in ClipYs, bottom_right_y \in ClipYs, fault \in ClipFaults :
           ret' = PathCall("Clip(path)", <<source_filepath>>, fault,
                           GDEM_Utility_Clip_path(source_filepath, top_left_x, top_left_y,
                                                  bottom_right_x, bottom_right_y, fault))
    /\ UNCHANGED <<dem, handles, objects>>

Call_Resample_path ==
    /\ Idle
    /\ \E source_filepath \in PathSources, output_width \in OutputSizes, output_height \in OutputSizes,
          fault \in ResampleFaults :
           ret' = PathCall("Resample(path)", <<source_filepath>>, fault,
                           GDEM_Utility_Resample_path(source_filepath, output_width, output_height, fault))
    /\ UNCHANGED <<dem, handles, objects>>

\* a nullptr among the datasets stops the process inside Merge(datasets)
Call_Merge_paths ==
    /\ Idle
    /\ \E source_filepaths \in PathLists, nodata_value \in NoDataArguments, fault \in Faults :
           LET o == GDEM_Utility_Merge_paths(source_filepaths, nodata_value, fault)
           IN  ret' = PathCall(IF o.error = "crash" THEN "crash" ELSE "Merge(paths)",
                               source_filepaths, fault, o)
    /\ UNCHANGED <<dem, handles, objects>>

Call_Coordinate ==
    /\ Idle
    /\ \E latitude \in CoordinateLatitudes, longitude \in CoordinateLongitudes :
           ret' = [op |-> "Coordinate", latitude |-> latitude, longitude |-> longitude,
                   error |-> Coordinate_outcome(latitude, longitude)]
    /\ UNCHANGED <<dem, handles, objects>>

PathNext ==
    \/ Call_Reproject_path
    \/ Call_Clip_path
    \/ Call_Resample_path
    \/ Call_Merge_paths
    \/ Call_GDEM_Utility_Merge
    \/ Call_CoordinatesAlongPolygon
    \/ Call_Coordinate
    \/ Return

PathSpec == PathInit /\ [][PathNext]_vars

\* ------------------------------------------------- reading the metadata
\* the values given for the template parameter no_data_fallback: the default
\* of int16_t, the default of an unsigned sample type, and one chosen freely
Fallbacks == {INT16_MIN, 0, -1}

TypeInit ==
    /\ dem = DEM_initialize([YSize |-> 1, XSize |-> 1, transform |-> <<0, 2, 0, 10, 0, -2>>,
                             NoDataValue |-> 0, pattern |-> "ramp"])
    /\ ret = [op |-> "none"]
    /\ handles = <<>>
    /\ objects = <<>>

\* GDEM::Type<DataType, 1, no_data_fallback> type(dataset)
Call_Type_initialize ==
    /\ Idle
    /\ \E ds \in Datasets, no_data_fallback \in Fallbacks :
           ret' = [op |-> "Type::initialize", dataset |-> ds, no_data_fallback |-> no_data_fallback,
                   type |-> Type_initialize(ds, no_data_fallback)]
    /\ UNCHANGED <<dem, handles, objects>>

\* Type type(dataset) of the older class
Call_legacy_Type_initialize ==
    /\ Idle
    /\ \E ds \in Datasets :
           ret' = [op |-> "::Type::Type", dataset |-> ds, no_data_fallback |-> INT16_MIN,
                   type |-> Type_initialize(ds, INT16_MIN)]
    /\ UNCHANGED <<dem, handles, objects>>

TypeNext ==
    \/ Call_Type_initialize
    \/ Call_legacy_Type_initialize
    \/ Return

TypeSpec == TypeInit /\ [][TypeNext]_vars

\* ---------------------------------------------- Utility::Merge, by cell
\* GDEM::Utility::Merge(datasets) followed through its loops: `ret` holds the
\* call in progress. n counts the cells done in row-major order, (x, y) is
\* the location probed for the current cell, k the next input to probe,
\* values the vector of the current cell, from the inputs it was filled
\* from, cells the values written and writes the number of writes per cell.
MergeCells(output) == (0..(output.YSize - 1)) \X (0..(output.XSize - 1))

\* the cell (i, j) the loops are at after n cells
CellAfter(output, n) == << n \div output.XSize, n % output.XSize >>

\* the vector left as the previous cell filled it
NewValues_kept(values) == values

\* std::vector<int16_t> values; declared in the body of the inner loop
NewValues(values) == <<>>

\* the call has an output raster and has not left its loops
InLoops == ret.op = "Merge:loop"

CellsLeft == ret.n < ret.output.XSize * ret.output.YSize

MergeStepInit ==
    /\ dem = DEM_initialize([YSize |-> 1, XSize |-> 1, transform |-> <<0, 2, 0, 10, 0, -2>>,
                             NoDataValue |-> 0, pattern |-> "ramp"])
    /\ ret = [op |-> "none"]
    /\ handles = <<>>
    /\ objects = <<>>

\* lines 229-283: the output raster is created and the loops are entered
Merge_create ==
    /\ Idle
    /\ \E sources \in SourceLists \ {<<>>}, nodata_value \in NoDataArguments :
           LET output == MergeCreate(sources, nodata_value)
           IN  ret' = [op |-> "Merge:loop", sources |-> sources, nodata_value |-> nodata_value,
                       output |-> output, n |-> 0, k |-> 1,
                       x |-> CellX(output.transform, 0, 0), y |-> CellY(output.transform, 0, 0),
                       values |-> <<>>, from |-> <<>>,
                       cells |-> <<>>, writes |-> [ij \in MergeCells(output) |-> 0]]
    /\ UNCHANGED <<dem, handles, objects>>

\* lines 285-307, one pass of the loop over the inputs
Merge_probe ==
    /\ InLoops
    /\ CellsLeft
    /\ ret.k <= Len(ret.sources)
    /\ LET dataset == ret.sources[ret.k]
       IN  IF IndexInRange(dataset, ret.x, ret.y)
           THEN ret' = [ret EXCEPT !.values = Append(@, RasterIO(dataset, x_index(dataset, ret.x),
                                                                 y_index(dataset, ret.y), FALSE).value),
                                   !.from = Append(@, ret.k),
                                   !.k = @ + 1]
           ELSE ret' = [ret EXCEPT !.k = @ + 1]
    /\ UNCHANGED <<dem, handles, objects>>

\* lines 309-321 and the step to the next cell
Merge_write ==
    /\ InLoops
    /\ CellsLeft
    /\ ret.k > Len(ret.sources)
    /\ LET ij == CellAfter(ret.output, ret.n)
           next == CellAfter(ret.output, ret.n + 1)
           median == CellMedian(ret.sources, ret.nodata_value, ret.values)
       IN  ret' = [ret EXCEPT !.cells = [c \in (DOMAIN @) \cup {ij} |-> IF c = ij THEN median ELSE @[c]],
                               !.writes[ij] = @ + 1,
                               !.n = @ + 1,
                               !.k = 1,
                               !.x = CellX(ret.output.transform, next[1], next[2]),
                               !.y = CellY(ret.output.transform, next[1], next[2]),
                               !.values = NewValues(ret.values),
                               !.from = <<>>]
    /\ UNCHANGED <<dem, handles, objects>>

\* lines 325-326: GDALClose(output_dataset)
Merge_close ==
    /\ InLoops
    /\ ~CellsLeft
    /\ ret' = [ret EXCEPT !.op = "Merge:done"]
    /\ UNCHANGED <<dem, handles, objects>>

Merge_return ==
    /\ ret.op = "Merge:done"
    /\ ret' = [op |-> "none"]
    /\ UNCHANGED <<dem, handles, objects>>

MergeStepNext ==
    \/ Merge_create
    \/ Merge_probe
    \/ Merge_write
    \/ Merge_close
    \/ Merge_return

MergeStepSpec == MergeStepInit /\ [][MergeStepNext]_vars

\* ------------------------------------------------------------- properties
AltitudeOps == {"altitude", "DEM_altitude"}

InterpolatedOps == {"interpolated_altitude", "DEM_interpolated_altitude"}

\* the queried point lies in [SW.lat, NE.lat) x [SW.lon, NE.lon) of the DEM
InsideBounds ==
    /\ dem.bounds.SW.latitude <= ret.latitude
    /\ ret.latitude < dem.bounds.NE.latitude
    /\ dem.bounds.SW.longitude <= ret.longitude
    /\ ret.longitude < dem.bounds.NE.longitude

\* the queried point is the geographic center of pixel (r, c)
AtPixelCenter(r, c) ==
    /\ 2 * ret.latitude = 2 * dem.type.y_max + (2 * r + 1) * dem.type.y_resolution
    /\ 2 * ret.longitude = 2 * dem.type.x_min + (2 * c + 1) * dem.type.x_resolution

\* the queried point is the corner of pixel (r, c): row = r and column = c
AtPixelCorner(r, c) ==
    /\ ret.latitude = dem.type.y_max + r * dem.type.y_resolution
    /\ ret.longitude = dem.type.x_min + c * dem.type.x_resolution

Stored(r, c) == Sample(dem.dataset.pattern, r, c)

\* C1: within(lat, lon) is true iff SW.lat <= lat < NE.lat and
\* SW.lon <= lon < NE.lon, for Bounds::within and for the older
\* check_coordinates_bounds; with NW=(10,0), SE=(0,10), within(10,5) is false
\* and within(0,5) is true.
C1_WithinHalfOpen ==
    /\ ret.op = "within" =>
        /\ ret.inside <=>
            /\ ret.bounds.SW.latitude <= ret.latitude
            /\ ret.latitude < ret.bounds.NE.latitude
            /\ ret.bounds.SW.longitude <= ret.longitude
            /\ ret.longitude < ret.bounds.NE.longitude
        /\ ( /\ ret.bounds.NW = Coordinate(10, 0)
             /\ ret.bounds.SE = Coordinate(0, 10)
             /\ ret.longitude = 5 ) =>
                /\ ret.latitude = 10 => ret.inside = FALSE
                /\ ret.latitude = 0 => ret.inside = TRUE
    /\ ret.op = "check_coordinates_bounds" => (ret.inside <=> InsideBounds)

C1_Witness ==
    /\ ret.op = "within"
    /\ ret.bounds.NW = Coordinate(10, 0)
    /\ ret.bounds.SE = Coordinate(0, 10)
    /\ ret.latitude = 10
    /\ ret.longitude = 5
    /\ ret.inside = FALSE

\* C2: altitude and interpolated_altitude never raise an error; each returns
\* the grid's nodata value when the point is outside within() and when one of
\* the sample reads it issues fails.
C2_NoDataOnOutsideOrReadFailure ==
    /\ ret.op \in AltitudeOps =>
        /\ ~ret.raised
        /\ ~InsideBounds => ret.altitude = dem.type.nodata
        /\ ret.read_failed => ret.altitude = dem.type.nodata
    /\ ret.op \in InterpolatedOps =>
        /\ ~ret.raised
        /\ ~InsideBounds => FracEq(ret.interpolated, FromInt(dem.type.nodata))
        /\ ret.read_failed => FracEq(ret.interpolated, FromInt(dem.type.nodata))

C2_Witness ==
    /\ ret.op = "interpolated_altitude"
    /\ InsideBounds
    /\ ret.fail_at = 3
    /\ Len(ret.reads) = 3
    /\ ret.read_failed
    /\ FracEq(ret.interpolated, FromInt(dem.type.nodata))

\* C3: altitude queried at the exact geographic center of pixel (r, c), with
\* no storage error, returns the sample stored at pixel (r, c).
C3_AltitudeAtPixelCenter ==
    ret.op \in AltitudeOps =>
        \A r \in 0..(dem.type.rows - 1), c \in 0..(dem.type.columns - 1) :
            (AtPixelCenter(r, c) /\ ret.fail_at = 0) => ret.altitude = Stored(r, c)

\* C4: interpolated_altitude at the exact center of the cell whose top-left
\* pixel is (r, c), not on the last row or column, with no storage error,
\* returns (m + n + o + p) / 4 of the four surrounding samples.
C4_InterpolatedAtCellCenter ==
    ret.op \in InterpolatedOps =>
        \A r \in 0..(dem.type.rows - 2), c \in 0..(dem.type.columns - 2) :
            (AtPixelCenter(r, c) /\ ret.fail_at = 0) =>
                FracEq(ret.interpolated,
                       Frac(Stored(r, c) + Stored(r, c + 1) + Stored(r + 1, c) + Stored(r + 1, c + 1), 4))

\* C5: interpolated_altitude at an in-bounds point whose row and column are
\* both integers (the corner of pixel (r, c)), the last row and column
\* included, with no storage error, returns exactly the sample at (r, c).
\* Stated for the grids whose nodata value is negative, where no row or
\* column can be mistaken for the out-of-bounds sentinel.
C5_InterpolatedAtCorner ==
    (ret.op \in InterpolatedOps /\ dem.type.nodata < 0) =>
        \A r \in 0..(dem.type.rows - 1), c \in 0..(dem.type.columns - 1) :
            (AtPixelCorner(r, c) /\ InsideBounds /\ ret.fail_at = 0) =>
                FracEq(ret.interpolated, FromInt(Stored(r, c)))

\* ------------------------------------------------------ Merge properties
MergeOps == {"GDEM_Utility_Merge", "Utility_Merge_datasets", "Utility_Merge_filepaths"}

\* a Merge call that ran to completion
MergeDone == ret.op \in MergeOps /\ ret.out.status = "ok"

OutputCells == (0..(ret.out.YSize - 1)) \X (0..(ret.out.XSize - 1))

\* the samples collected for output cell ij, in input order
Collected(ij) ==
    CellValues(ret.sources, CellX(ret.out.transform, ij[1], ij[2]), CellY(ret.out.transform, ij[1], ij[2]))

\* (a + b) / 2 of int operands in C++: the quotient truncated toward zero
HalfTowardZero(a) == IF a >= 0 THEN a \div 2 ELSE -((-a) \div 2)

SmallerOf(values) == IF values[1] < values[2] THEN values[1] ELSE values[2]

LargerOf(values) == IF values[1] < values[2] THEN values[2] ELSE values[1]

\* v is the middle element of the ascending sort of an odd number of values
IsMiddle(v, values) ==
    /\ \E k \in 1..Len(values) : values[k] = v
    /\ 2 * Cardinality({k \in 1..Len(values) : values[k] < v}) < Len(values)
    /\ 2 * Cardinality({k \in 1..Len(values) : values[k] > v}) < Len(values)

\* C6 as amended: with exactly two collected samples a cell gets their sum
\* halved in integer arithmetic (truncated toward zero) on the averaging path
\* Utility::Merge(filepaths), and the larger of the two (values[size / 2]) on
\* the non-averaging paths: 15 and 20 for {10, 20}; with an odd number of
\* samples it gets the middle element of the ascending sort.
C6_MedianUpperOrTruncatedAverage ==
    MergeDone =>
        \A ij \in OutputCells :
            LET values == Collected(ij)
                written == ret.out.cells[ij]
            IN  /\ Len(values) = 2 =>
                    IF ret.op = "Utility_Merge_filepaths"
                    THEN written = HalfTowardZero(values[1] + values[2])
                    ELSE written = LargerOf(values)
                /\ Len(values) % 2 = 1 => IsMiddle(written, values)

\* C6 as claimed: the average of the two on the averaging path (to the
\* nearest integer either way), the lower of the two on the other paths
C6_Original ==
    MergeDone =>
        \A ij \in OutputCells :
            LET values == Collected(ij)
                written == ret.out.cells[ij]
            IN  /\ Len(values) = 2 =>
                    IF ret.op = "Utility_Merge_filepaths"
                    THEN 2 * written \in (values[1] + values[2] - 1)..(values[1] + values[2] + 1)
                    ELSE written = SmallerOf(values)
                /\ Len(values) % 2 = 1 => IsMiddle(written, values)

\* two inputs contribute 10 and 20 to a cell on a non-averaging path: 20 is written
C6_Witness ==
    /\ MergeDone
    /\ ret.op = "GDEM_Utility_Merge"
    /\ \E ij \in OutputCells : Collected(ij) = <<10, 20>> /\ ret.out.cells[ij] = 20

\* C7: in every Merge call path, an output cell for which no input
\* contributes a sample is written with the nodata value declared by the
\* first input raster.
C7_UncoveredGetsFirstInputNoData ==
    MergeDone =>
        \A ij \in OutputCells :
            Len(Collected(ij)) = 0 => ret.out.cells[ij] = ret.sources[1].NoDataValue

\* the location (x2 / 2, y2 / 2) lies inside the extent of a north-up input
InExtent2(dataset, x2, y2) ==
    /\ 2 * dataset.transform[1] <= x2
    /\ x2 < 2 * (dataset.transform[1] + dataset.XSize * dataset.transform[2])
    /\ 2 * (dataset.transform[4] + dataset.YSize * dataset.transform[6]) < y2
    /\ y2 <= 2 * dataset.transform[4]

\* the pixel <<row, column>> of the input that contains that location
PixelAt2(dataset, x2, y2) ==
    << (2 * dataset.transform[4] - y2) \div (2 * (-dataset.transform[6])),
       (x2 - 2 * dataset.transform[1]) \div (2 * dataset.transform[2]) >>

\* twice the coordinates of the top-left corner and of the center of cell ij
Corner2(ij) ==
    << 2 * CellX(ret.out.transform, ij[1], ij[2]), 2 * CellY(ret.out.transform, ij[1], ij[2]) >>

Center2(ij) ==
    << Corner2(ij)[1] + ret.out.transform[2], Corner2(ij)[2] + ret.out.transform[6] >>

\* input k, and no other input, covers cell ij: its corner and its center lie
\* in the extent of input k, in one and the same pixel, and in no other extent
CoveredOnlyBy(k, ij) ==
    /\ InExtent2(ret.sources[k], Corner2(ij)[1], Corner2(ij)[2])
    /\ InExtent2(ret.sources[k], Center2(ij)[1], Center2(ij)[2])
    /\ PixelAt2(ret.sources[k], Corner2(ij)[1], Corner2(ij)[2])
         = PixelAt2(ret.sources[k], Center2(ij)[1], Center2(ij)[2])
    /\ \A other \in 1..Len(ret.sources) :
        other # k =>
            /\ ~InExtent2(ret.sources[other], Corner2(ij)[1], Corner2(ij)[2])
            /\ ~InExtent2(ret.sources[other], Center2(ij)[1], Center2(ij)[2])

\* C8: every output cell covered by exactly one input receives that input's
\* stored sample at the pixel containing the cell.
C8_SingleCoverKeepsSample ==
    MergeDone =>
        \A ij \in OutputCells, k \in 1..Len(ret.sources) :
            CoveredOnlyBy(k, ij) =>
                LET pixel == PixelAt2(ret.sources[k], Corner2(ij)[1], Corner2(ij)[2])
                IN  ret.out.cells[ij] = Sample(ret.sources[k].pattern, pixel[1], pixel[2])

\* an output raster was created: the list of inputs was not empty
MergeCreated == ret.op \in MergeOps /\ ret.out.status # "EmptyInput"

Inputs == 1..Len(ret.sources)

IsLeast(v, S) == v \in S /\ \A w \in S : v <= w

IsGreatest(v, S) == v \in S /\ \A w \in S : w <= v

\* C9: the output geotransform has the least x-origin and the greatest
\* y-origin of the inputs, the greatest absolute pixel width, minus the
\* greatest absolute pixel height, and both rotation terms 0.
C9_OutputGeoTransform ==
    MergeCreated =>
        /\ IsLeast(ret.out.transform[1], { ret.sources[k].transform[1] : k \in Inputs })
        /\ IsGreatest(ret.out.transform[4], { ret.sources[k].transform[4] : k \in Inputs })
        /\ IsGreatest(ret.out.transform[2], { Abs(ret.sources[k].transform[2]) : k \in Inputs })
        /\ IsGreatest(-ret.out.transform[6], { Abs(ret.sources[k].transform[6]) : k \in Inputs })
        /\ ret.out.transform[3] = 0
        /\ ret.out.transform[5] = 0

\* the first input lies east and south of the second and is the finer one
C9_Witness ==
    /\ MergeDone
    /\ Len(ret.sources) = 2
    /\ ret.sources[1].transform[1] > ret.sources[2].transform[1]
    /\ ret.sources[1].transform[4] < ret.sources[2].transform[4]
    /\ ret.sources[1].transform[2] < ret.sources[2].transform[2]
    /\ ret.out.transform = <<0, 4, 0, 4, 0, -4>>

\* the union bounding box of the inputs
max_x == CHOOSE v \in { ret.sources[k].transform[1] + ret.sources[k].XSize * ret.sources[k].transform[2] : k \in Inputs } :
            \A k \in Inputs : ret.sources[k].transform[1] + ret.sources[k].XSize * ret.sources[k].transform[2] <= v

min_y == CHOOSE v \in { ret.sources[k].transform[4] + ret.sources[k].YSize * ret.sources[k].transform[6] : k \in Inputs } :
            \A k \in Inputs : v <= ret.sources[k].transform[4] + ret.sources[k].YSize * ret.sources[k].transform[6]

\* the width and height of the union bounding box, measured from the output origin
BoxWidth == max_x - ret.out.transform[1]

BoxHeight == ret.out.transform[4] - min_y

\* C10 as amended: the output has (max_x - min_x) / cellsize_x columns and
\* (max_y - min_y) / cellsize_y rows with the fraction discarded, not rounded;
\* its footprint starts at the north-west corner of the union bounding box and
\* ends inside it, less than one cell short of its east and south edges.
C10_TruncatedDimensions ==
    MergeCreated =>
        /\ ret.out.XSize * ret.out.transform[2] <= BoxWidth
        /\ BoxWidth < (ret.out.XSize + 1) * ret.out.transform[2]
        /\ ret.out.YSize * (-ret.out.transform[6]) <= BoxHeight
        /\ BoxHeight < (ret.out.YSize + 1) * (-ret.out.transform[6])

\* C10 as claimed: the dimensions are the rounded quotients and the footprint
\* is the union bounding box
C10_Original ==
    MergeCreated =>
        /\ ret.out.XSize = Round(Frac(BoxWidth, ret.out.transform[2]))
        /\ ret.out.YSize = Round(Frac(BoxHeight, -ret.out.transform[6]))
        /\ ret.out.XSize * ret.out.transform[2] = BoxWidth
        /\ ret.out.YSize * (-ret.out.transform[6]) = BoxHeight

\* the bounding box is 7 wide, the cells 4: one column, not round(1.75) = 2
C10_Witness ==
    /\ MergeDone
    /\ BoxWidth = 7
    /\ ret.out.transform[2] = 4
    /\ ret.out.XSize = 1

\* ------------------------------------------------------- handle ownership
\* the handles opened by a DEM constructor, copy or assignment
OpenedByDEM == { h \in 1..Len(handles) : handles[h].by = "DEM" }

CopyOps == {"DEM(const DEM&)", "DEM::operator=(const DEM&)"}

\* C11: every raster handle a DEM opened is released exactly once: no handle
\* is closed twice, no two live DEM objects hold the same handle, a DEM that
\* was moved from holds no handle, and once every DEM object is destroyed
\* no handle a DEM opened is still open.
C11_HandlesReleasedExactlyOnce ==
    /\ \A h \in OpenedByDEM : handles[h].closes <= 1
    /\ \A s, t \in DOMAIN objects :
          (s # t /\ objects[s].alive /\ objects[t].alive /\ objects[s].dataset # NULL)
              => objects[s].dataset # objects[t].dataset
    /\ (ret.op = "move" /\ ret.source # ret.target) => objects[ret.source].dataset = NULL
    /\ (ret.op # "crash" /\ \A s \in DOMAIN objects : ~objects[s].alive)
          => \A h \in OpenedByDEM : handles[h].closes = 1

\* C13: a copy (construction or assignment) of a DEM that holds a handle it
\* owns completes and leaves the copy with a handle of its own, newly opened
\* on the file of the source's handle, whose band it reads; the source keeps
\* its handle.
C13_CopyReopensSameFile ==
    /\ ~(ret.op = "crash" /\ ret.in \in CopyOps)
    /\ (ret.op = "copy" /\ ret.source # ret.target /\ ret.source_handle \in OpenedByDEM) =>
          /\ ret.handle \in OpenedByDEM
          /\ ret.handle # ret.source_handle
          /\ handles[ret.handle].file = handles[ret.source_handle].file
          /\ handles[ret.handle].closes = 0
          /\ objects[ret.target].dataset = ret.handle
          /\ objects[ret.target].data = ret.handle
          /\ objects[ret.source].dataset = ret.source_handle

\* C14: GDEM::DEM(path) fails with FileNotFound on a missing path, OpenFailed
\* on a file GDAL cannot open, InvalidBand when the band index exceeds the
\* band count, TransformUnavailable when no geotransform can be read; and
\* whenever it fails after opening the file, the handle it opened has been
\* closed exactly once.
C14_ConstructionErrorsReleaseHandle ==
    ret.op = "DEM(path)" =>
        /\ ~exists(ret.file_path) => ret.error = "FileNotFound"
        /\ (exists(ret.file_path) /\ ~Opens(ret.file_path)) => ret.error = "OpenFailed"
        /\ (Opens(ret.file_path) /\ ret.raster_number > Raster(ret.file_path).RasterCount)
              => ret.error = "InvalidBand"
        /\ (Opens(ret.file_path) /\ ret.raster_number <= Raster(ret.file_path).RasterCount
                /\ ~Raster(ret.file_path).transform_ok)
              => ret.error = "TransformUnavailable"
        /\ (ret.error # "none" /\ ret.handle # NULL) => handles[ret.handle].closes = 1

\* ------------------------------------------------ calls on raster handles
HandleOps == {"Type", "::Type", "Metadata", "Reproject", "Clip", "Resample", "Merge"}

\* C12: no operation handed a raster handle by the caller closes it: after
\* Type, Metadata, Reproject, Merge, Clip or Resample on supplied handles,
\* whether the call succeeded or failed, every supplied handle is still open.
C12_SuppliedHandlesStayOpen ==
    ret.op \in HandleOps =>
        \A k \in 1..Len(ret.supplied) : handles[ret.supplied[k]].closes = 0

\* the ground extent of the source of the last call
SourceMinX == ret.source.transform[1]

SourceMaxX == ret.source.transform[1] + ret.source.XSize * ret.source.transform[2]

SourceMaxY == ret.source.transform[4]

SourceMinY == ret.source.transform[4] + ret.source.YSize * ret.source.transform[6]

BoxInverted == ret.top_left_x > ret.bottom_right_x \/ ret.top_left_y < ret.bottom_right_y

\* the requested box shares no area with the source
BoxOutside ==
    \/ ret.bottom_right_x <= SourceMinX
    \/ ret.top_left_x >= SourceMaxX
    \/ ret.bottom_right_y >= SourceMaxY
    \/ ret.top_left_y <= SourceMinY

\* C15: Clip on a georeferenced source with a box entirely outside the
\* source, or with inverted corners, fails with InvalidClipRegion, and no
\* output raster has been created.
C15_OutsideOrInvertedRejected ==
    (ret.op = "Clip" /\ ret.source.transform_ok /\ (BoxOutside \/ BoxInverted)) =>
        /\ ret.out.status = "InvalidClipRegion"
        /\ ~ret.out.created
        /\ (ret.out.window.end_x - ret.out.window.start_x <= 0
              \/ ret.out.window.end_y - ret.out.window.start_y <= 0)

\* a proper box that shares no area with the source is refused
C15_Witness ==
    /\ ret.op = "Clip"
    /\ ret.source.transform_ok
    /\ BoxOutside
    /\ ret.top_left_x < ret.bottom_right_x
    /\ ret.top_left_y > ret.bottom_right_y
    /\ ret.fault.kind = "none"
    /\ ret.out.status = "InvalidClipRegion"

Clamp(v, lo, hi) == IF v < lo THEN lo ELSE IF v > hi THEN hi ELSE v

\* the box reaches beyond the source on some side
BoxPartlyOutside ==
    \/ ret.top_left_x < SourceMinX
    \/ ret.bottom_right_x > SourceMaxX
    \/ ret.top_left_y > SourceMaxY
    \/ ret.bottom_right_y < SourceMinY

\* the box and the source share at least one pixel width and one pixel height
OverlapsWholePixel ==
    /\ Min2(ret.bottom_right_x, SourceMaxX) - Max2(ret.top_left_x, SourceMinX) >= Abs(ret.source.transform[2])
    /\ Min2(ret.top_left_y, SourceMaxY) - Max2(ret.bottom_right_y, SourceMinY) >= Abs(ret.source.transform[6])

\* C16: Clip with a box partly outside the source that overlaps it by at
\* least one whole pixel on each axis succeeds; start and end on each axis
\* are the truncated pixel offsets clamped into [0, source size]; the window
\* [start, end) lies inside the source and is what is copied; the output has
\* end - start pixels per axis; its geotransform has the source's pixel
\* sizes and the origin of the window's top-left pixel.
C16_PartialOverlapClamped ==
    (ret.op = "Clip" /\ ret.source.transform_ok /\ ret.fault.kind = "none"
        /\ ~BoxInverted /\ BoxPartlyOutside /\ OverlapsWholePixel) =>
        LET g == ret.source.transform
            w == ret.out.window
        IN  /\ ret.out.status = "ok"
            /\ w.start_x = Clamp(TruncDiv(ret.top_left_x - g[1], g[2]), 0, ret.source.XSize)
            /\ w.end_x = Clamp(TruncDiv(ret.bottom_right_x - g[1], g[2]), 0, ret.source.XSize)
            /\ w.start_y = Clamp(TruncDiv(ret.top_left_y - g[4], g[6]), 0, ret.source.YSize)
            /\ w.end_y = Clamp(TruncDiv(ret.bottom_right_y - g[4], g[6]), 0, ret.source.YSize)
            /\ 0 <= w.start_x /\ w.start_x < w.end_x /\ w.end_x <= ret.source.XSize
            /\ 0 <= w.start_y /\ w.start_y < w.end_y /\ w.end_y <= ret.source.YSize
            /\ ret.out.XSize = w.end_x - w.start_x
            /\ ret.out.YSize = w.end_y - w.start_y
            /\ DOMAIN ret.out.cells = (0..(ret.out.YSize - 1)) \X (0..(ret.out.XSize - 1))
            /\ \A ij \in DOMAIN ret.out.cells :
                  ret.out.cells[ij] = Sample(ret.source.pattern, w.start_y + ij[1], w.start_x + ij[2])
            /\ ret.out.transform[1] = g[1] + w.start_x * g[2]
            /\ ret.out.transform[4] = g[4] + w.start_y * g[6]
            /\ ret.out.transform[2] = g[2]
            /\ ret.out.transform[6] = g[6]

\* a box that starts west and north of the source and ends inside it
C16_Witness ==
    /\ ret.op = "Clip"
    /\ ret.source.transform_ok
    /\ ret.fault.kind = "none"
    /\ ~BoxInverted
    /\ OverlapsWholePixel
    /\ ret.top_left_x < SourceMinX
    /\ ret.top_left_y > SourceMaxY
    /\ ret.bottom_right_x < SourceMaxX
    /\ ret.out.status = "ok"
    /\ ret.out.XSize < ret.source.XSize

\* C19: Resample gives the output the source's origin and the pixel sizes
\* pixel_width * sourceWidth / targetWidth and pixel_height * sourceHeight /
\* targetHeight, so that the output spans the source's ground extent.
C19_ResamplePreservesExtent ==
    (ret.op = "Resample" /\ ret.resampled.status = "ok") =>
        LET g == ret.source.transform
            o == ret.resampled.geotransform
        IN  /\ ret.output_width > 0 /\ ret.output_height > 0
            /\ ret.resampled.XSize = ret.output_width
            /\ ret.resampled.YSize = ret.output_height
            /\ FracEq(o[1], FromInt(g[1]))
            /\ FracEq(o[4], FromInt(g[4]))
            /\ o[2].n * ret.output_width = g[2] * ret.source.XSize * o[2].d
            /\ o[6].n * ret.output_height = g[6] * ret.source.YSize * o[6].d

C19_Witness ==
    /\ ret.op = "Resample"
    /\ ret.resampled.status = "ok"
    /\ ret.output_width > ret.source.XSize
    /\ ret.output_height < ret.source.YSize
    /\ ret.resampled.geotransform[2].d > 1

\* the number, in row-major order, of output cell ij of a raster XSize wide
RowMajor(ij, XSize) == ij[1] * XSize + ij[2]

\* the injected read or write failure is met by the last call
FaultMet ==
    CASE ret.op = "Merge" ->
            /\ ret.out.status \notin {"EmptyInput", "TransformUnavailable"}
            /\ FaultFires(ret.sources, ret.out, ret.fault)
      [] ret.op = "Clip" ->
            /\ ret.out.created
            /\ ret.fault.kind \in {"read", "write"}
      [] ret.op = "Reproject" ->
            /\ ret.out.created
            /\ ret.source.transform_ok
            /\ \/ ret.fault.kind = "read"
               \/ ret.fault.kind = "write" /\ ret.fault.cell < ret.source.XSize * ret.source.YSize
      [] OTHER -> FALSE

\* C20: when a sample read or a cell write fails during Merge, Clip or
\* Reproject, the call ends with an error and not with success, no output
\* cell at or after the failing one has been written, and the output raster
\* the call created has been closed.
C20_BulkFailureAborts ==
    (ret.op \in {"Merge", "Clip", "Reproject"} /\ FaultMet) =>
        /\ ret.out.status \in {"ReadFailed", "WriteFailed"}
        /\ ret.out.closed
        /\ \A ij \in DOMAIN ret.out.cells : RowMajor(ij, ret.out.XSize) < ret.fault.cell

C20_Witness ==
    /\ ret.op = "Reproject"
    /\ FaultMet
    /\ ret.fault.kind = "write"
    /\ ret.fault.cell = 1
    /\ ret.out.status = "WriteFailed"
    /\ DOMAIN ret.out.cells = {<<0, 0>>}

\* the extent of a catalog entry, from its geotransform and size
EntryExtent(filepath) ==
    LET r == Raster(filepath)
    IN  [min_x |-> r.transform[1], max_x |-> r.transform[1] + r.XSize * r.transform[2],
         min_y |-> r.transform[4] + r.YSize * r.transform[6], max_y |-> r.transform[4]]

\* the entry opens, is georeferenced, and its extent is not strictly to one
\* side of the query box
EntryCovers(filepath) ==
    /\ Opens(filepath)
    /\ Raster(filepath).transform_ok
    /\ LET e == EntryExtent(filepath)
       IN  ~ \/ e.max_x < ret.top_left_x
             \/ e.min_x > ret.bottom_right_x
             \/ e.max_y < ret.bottom_right_y
             \/ e.min_y > ret.top_left_y

\* C17: Coverage returns exactly the catalog entries, in catalog order, that
\* can be opened and whose extent meets the query box, touching edges
\* included; entries that cannot be opened are skipped and no error is raised.
C17_CoverageSelectsIntersecting ==
    ret.op = "Coverage" =>
        /\ ret.error = "none"
        /\ ret.results = SelectSeq(ret.filepaths, EntryCovers)

\* three entries, one of which cannot be opened; the two others are returned,
\* one of them only touching the western edge of the query box
C17_Witness ==
    /\ ret.op = "Coverage"
    /\ ret.filepaths = <<"dem.tif", "broken.tif", "east.tif">>
    /\ ret.top_left_x = 4
    /\ ret.bottom_right_x = 9
    /\ ret.top_left_y = 12
    /\ ret.bottom_right_y = 5
    /\ ret.results = <<"dem.tif", "east.tif">>

\* floor(d / interval) for segment s of the last call, d in arcseconds
SegmentSteps(s) ==
    LET a == ret.polygon_points[s]
        b == ret.polygon_points[s + 1]
        squared == (b[1] - a[1]) * (b[1] - a[1]) + (b[2] - a[2]) * (b[2] - a[2])
        u == ret.interval_arcseconds
    IN  Cardinality({k \in 1..squared : k * k * u * u <= squared})

\* the number of points owed to the segments before segment s
RECURSIVE SegmentOffset(_)
SegmentOffset(s) == IF s = 1 THEN 0 ELSE SegmentOffset(s - 1) + SegmentSteps(s - 1) + 1

\* an emitted coordinate is a number and equals the fraction n/d
IsValue(p, n, d) == p.d # 0 /\ p.n * d = n * p.d

\* an emitted point is the input point a
IsPoint(p, a) == IsValue(p.latitude, a[1], 1) /\ IsValue(p.longitude, a[2], 1)

\* C18: each segment (A, B) contributes exactly steps + 1 points in order,
\* steps = floor(d / (interval/3600)); the first is A, the last is B, and
\* point i is A + (i/steps)(B - A).
C18_SegmentsInterpolated ==
    (ret.op = "CoordinatesAlongPolygon" /\ Len(ret.polygon_points) >= 2) =>
        LET n == Len(ret.polygon_points)
        IN  /\ ret.error = "none"
            /\ Len(ret.coordinates) = SegmentOffset(n)
            /\ \A s \in 1..(n - 1) :
                   LET a == ret.polygon_points[s]
                       b == ret.polygon_points[s + 1]
                       steps == SegmentSteps(s)
                       at == SegmentOffset(s)
                   IN  /\ IsPoint(ret.coordinates[at + 1], a)
                       /\ IsPoint(ret.coordinates[at + steps + 1], b)
                       /\ \A i \in 0..steps :
                              steps > 0 =>
                                  /\ IsValue(ret.coordinates[at + i + 1].latitude,
                                             a[1] * steps + i * (b[1] - a[1]), steps)
                                  /\ IsValue(ret.coordinates[at + i + 1].longitude,
                                             a[2] * steps + i * (b[2] - a[2]), steps)

\* ----------------------------------------------------- setup-time failures
PathOps == {"Reproject(path)", "Clip(path)", "Resample(path)", "Merge(paths)"}

\* the call was given a source path that does not exist or cannot be opened
BadSourcePath == \E k \in 1..Len(ret.source_filepaths) : ~Opens(ret.source_filepaths[k])

\* C21: every setup-time failure reaches the caller as an explicit error and
\* nothing is produced: Merge of an empty list gives EmptyInput; Merge, Clip,
\* Resample and Reproject of a path that is missing or cannot be opened give
\* FileNotFound or OpenFailed and create no output raster;
\* CoordinatesAlongPolygon of fewer than 2 points gives InsufficientPoints
\* and no points; a Coordinate out of range gives InvalidCoordinate.
C21_SetupFailuresAreErrors ==
    /\ ret.op # "crash"
    /\ (ret.op \in PathOps /\ BadSourcePath) =>
           ret.error \in {"FileNotFound", "OpenFailed"} /\ ~ret.created
    /\ (ret.op = "Merge(paths)" /\ ret.source_filepaths = <<>>) =>
           ret.error = "EmptyInput" /\ ~ret.created
    /\ (ret.op = "GDEM_Utility_Merge" /\ ret.sources = <<>>) =>
           ret.out.status = "EmptyInput" /\ ret.out.cells = <<>>
    /\ (ret.op = "CoordinatesAlongPolygon" /\ Len(ret.polygon_points) < 2) =>
           ret.error = "InsufficientPoints" /\ ret.coordinates = <<>>
    /\ (ret.op = "Coordinate" /\ Coordinate_invalid(ret.latitude, ret.longitude)) =>
           ret.error = "InvalidCoordinate"

\* C27: a path-taking Reproject, Merge, Clip or Resample has closed every
\* source handle it opened exactly once when it returns or throws.
C27_PathOverloadsCloseSources ==
    ret.op \in PathOps =>
        \A h \in 1..Len(ret.opened) : ret.opened[h].closes = 1

\* ------------------------------------------------------ metadata properties
TypeOps == {"Type::initialize", "::Type::Type"}

\* C22: after the metadata is read, the grid's nodata value is the band's
\* declared nodata value, except that a declared value of exactly 0 is
\* replaced by the fallback value.
C22_NoDataOrFallback ==
    ret.op \in TypeOps =>
        ret.type.nodata = IF ret.dataset.NoDataValue = 0 THEN ret.no_data_fallback
                          ELSE ret.dataset.NoDataValue

\* a band declaring 0 read with a fallback other than the default
C22_Witness ==
    /\ ret.op = "Type::initialize"
    /\ ret.dataset.NoDataValue = 0
    /\ ret.no_data_fallback = -1
    /\ ret.type.nodata = -1

\* ------------------------------------------------- pixels read by a query
QueryOps == AltitudeOps \cup InterpolatedOps

\* the fractional row and column of the queried point
QueryRow == Frac(ret.latitude - dem.type.y_max, dem.type.y_resolution)

QueryColumn == Frac(ret.longitude - dem.type.x_min, dem.type.x_resolution)

\* an index equal to the count is reduced by one
ReducedIndex(k, count) == IF k = count THEN k - 1 ELSE k

\* the next index, or the index itself when it is the last one
NeighbourIndex(k, count) == IF k = count - 1 THEN k ELSE k + 1

InsideGrid(pixel) ==
    /\ 0 <= pixel[1] /\ pixel[1] < dem.type.rows
    /\ 0 <= pixel[2] /\ pixel[2] < dem.type.columns

\* C23: for a point inside within(), altitude issues exactly one read, at
\* row round(row) and column round(column), an index equal to the row or
\* column count being reduced by one first; that pixel is inside the grid.
C23_AltitudeReadsOnePixelInside ==
    (ret.op \in AltitudeOps /\ InsideBounds) =>
        /\ ret.reads = << << ReducedIndex(Round(QueryRow), dem.type.rows),
                             ReducedIndex(Round(QueryColumn), dem.type.columns) >> >>
        /\ InsideGrid(ret.reads[1])

\* C24: for a point inside within(), with r = floor(row) and c = floor(col),
\* interpolated_altitude reads (r, c), (r, c'), (r', c) and (r', c'), r' and
\* c' being the next row and column or r and c themselves on the last row
\* and column; the four pixels are inside the grid and no read fails unless
\* the storage fails.
C24_InterpolatedReadsFourInside ==
    (ret.op \in InterpolatedOps /\ InsideBounds /\ ret.fail_at = 0) =>
        LET r == Trunc(QueryRow)
            c == Trunc(QueryColumn)
            r2 == NeighbourIndex(r, dem.type.rows)
            c2 == NeighbourIndex(c, dem.type.columns)
        IN  /\ ret.reads = << <<r, c>>, <<r, c2>>, <<r2, c>>, <<r2, c2>> >>
            /\ \A k \in 1..4 : InsideGrid(ret.reads[k])
            /\ ~ret.read_failed

\* C28: for a point inside within(), neither the fractional row nor the
\* fractional column equals the nodata value, so the query does not take the
\* out-of-bounds branch: it issues a read.
C28_IndexNeverEqualsNoData ==
    (ret.op \in QueryOps /\ InsideBounds) =>
        /\ ~FracEq(QueryRow, FromInt(dem.type.nodata))
        /\ ~FracEq(QueryColumn, FromInt(dem.type.nodata))
        /\ ret.reads # <<>>

\* --------------------------------------------------- Merge, cell by cell
\* the cell the loops are at
CurrentCell == CellAfter(ret.output, ret.n)

\* C25: for every output cell (i, j) Merge probes the inputs at the center
\* of the cell, x = min_x + (j + 1/2) * cellsize_x and
\* y = max_y - (i + 1/2) * cellsize_y, and has collected a sample from
\* exactly the inputs probed so far whose pixel index for that location is
\* within their bounds.
C25_ProbesCellCenter ==
    (InLoops /\ CellsLeft) =>
        /\ 2 * ret.x = 2 * ret.output.transform[1] + (2 * CurrentCell[2] + 1) * ret.output.transform[2]
        /\ 2 * ret.y = 2 * ret.output.transform[4] + (2 * CurrentCell[1] + 1) * ret.output.transform[6]
        /\ ret.from = SelectSeq([k \in 1..(ret.k - 1) |-> k],
                                LAMBDA k : IndexInRange(ret.sources[k], ret.x, ret.y))

\* the location (x, y) lies inside the extent of a north-up input
InExtent(dataset, x, y) ==
    /\ dataset.transform[1] <= x
    /\ x < dataset.transform[1] + dataset.XSize * dataset.transform[2]
    /\ dataset.transform[4] + dataset.YSize * dataset.transform[6] < y
    /\ y <= dataset.transform[4]

\* C29: Merge collects a sample of an input for a cell only if the location
\* it probes for that cell lies inside the extent of that input.
C29_SamplesOnlyInsideExtent ==
    InLoops =>
        \A m \in 1..Len(ret.from) : InExtent(ret.sources[ret.from[m]], ret.x, ret.y)

\* C26: while Merge runs and when it has completed, every cell the loops
\* have passed has been written exactly once and every other cell never; the
\* value of a written cell is the median of the samples of its own location,
\* whatever was collected for or written to the other cells. On completion
\* every cell of the output has been passed.
C26_OneWritePerCellNoSharedState ==
    ret.op \in {"Merge:loop", "Merge:done"} =>
        /\ \A ij \in MergeCells(ret.output) :
               LET passed == ij[1] * ret.output.XSize + ij[2] < ret.n
               IN  /\ ret.writes[ij] = IF passed THEN 1 ELSE 0
                   /\ passed <=> ij \in DOMAIN ret.cells
                   /\ passed =>
                          ret.cells[ij] =
                              CellMedian(ret.sources, ret.nodata_value,
                                         CellValues(ret.sources, CellX(ret.output.transform, ij[1], ij[2]),
                                                    CellY(ret.output.transform, ij[1], ij[2])))
        /\ ret.op = "Merge:done" => ret.n = ret.output.XSize * ret.output.YSize

\* a completed Merge of several cells, two of which received different
\* numbers of samples
C26_Witness ==
    /\ ret.op = "Merge:done"
    /\ ret.n >= 4
    /\ \E a, b \in MergeCells(ret.output) :
           /\ Len(CellValues(ret.sources, CellX(ret.output.transform, a[1], a[2]),
                             CellY(ret.output.transform, a[1], a[2]))) = 2
           /\ Len(CellValues(ret.sources, CellX(ret.output.transform, b[1], b[2]),
                             CellY(ret.output.transform, b[1], b[2]))) = 0
           /\ ret.writes[a] = 1
           /\ ret.writes[b] = 1

\* C30: after a successful Merge every output cell that no input covers
\* (no input's extent contains its corner or its center) holds the nodata
\* value declared on the output band, the nodata_value passed to Merge.
C30_UncoveredHoldsDeclaredNoData ==
    MergeDone =>
        \A ij \in OutputCells :
            (\A k \in Inputs :
                /\ ~InExtent2(ret.sources[k], Corner2(ij)[1], Corner2(ij)[2])
                /\ ~InExtent2(ret.sources[k], Center2(ij)[1], Center2(ij)[2]))
            => /\ ret.out.NoDataValue = ret.nodata_value
               /\ ret.out.cells[ij] = ret.out.NoDataValue

====
